---------------------------- MODULE Spec2Model ----------------------------
(***************************************************************************)
(* EZ-GEN app generator: the POST /api/generate-app request handler and    *)
(* the build pipeline it drives (buildAndSyncApp, syncCapacitorWithFallback,*)
(* testAppFunctionality, generatePlayStoreBuilds and its stages).          *)
(*                                                                         *)
(* One generation request is followed from the upload middleware to the    *)
(* HTTP response.  Every action is one turn of the Node.js event loop: a   *)
(* callback together with the promise continuations (microtasks) that it   *)
(* makes runnable.  Strings are sequences of one-character strings.        *)
(***************************************************************************)
EXTENDS Integers, Sequences, FiniteSets, TLC

-----------------------------------------------------------------------------
(* Characters and string helpers *)

LowerSeq == << "a","b","c","d","e","f","g","h","i","j","k","l","m",
               "n","o","p","q","r","s","t","u","v","w","x","y","z" >>
UpperSeq == << "A","B","C","D","E","F","G","H","I","J","K","L","M",
               "N","O","P","Q","R","S","T","U","V","W","X","Y","Z" >>
Lower == { LowerSeq[i] : i \in 1..26 }
Upper == { UpperSeq[i] : i \in 1..26 }
Digit == { "0","1","2","3","4","5","6","7","8","9" }
Alpha == Lower \cup Upper
AlNum == Alpha \cup Digit
Whitespace == { " ", "\t", "\n" }
\* The double quote and the backtick are written as tokens.
QuoteChars == { "'", "dquote", "bquote" }

ToLowerChar(c) ==
  IF c \in Upper THEN LowerSeq[CHOOSE i \in 1..26 : UpperSeq[i] = c] ELSE c

ToLower(s) == [ i \in 1..Len(s) |-> ToLowerChar(s[i]) ]

AllIn(s, S) == \A i \in 1..Len(s) : s[i] \in S
AnyIn(s, S) == \E i \in 1..Len(s) : s[i] \in S

StartsWith(s, p) ==
  /\ Len(p) <= Len(s)
  /\ \A i \in 1..Len(p) : s[i] = p[i]

\* Index of the first element of s that is in S, 0 when there is none.
FirstIn(s, S) ==
  IF AnyIn(s, S) THEN CHOOSE i \in 1..Len(s) :
                        /\ s[i] \in S
                        /\ \A j \in 1..(i-1) : s[j] \notin S
  ELSE 0

\* Index of the last element of s that is in S, 0 when there is none.
LastIn(s, S) ==
  IF AnyIn(s, S) THEN CHOOSE i \in 1..Len(s) :
                        /\ s[i] \in S
                        /\ \A j \in (i+1)..Len(s) : s[j] \notin S
  ELSE 0

\* String.prototype.split(sep) for a one-character separator.
RECURSIVE Split(_, _)
Split(s, sep) ==
  LET i == FirstIn(s, {sep})
  IN  IF i = 0 THEN << s >>
      ELSE << SubSeq(s, 1, i-1) >> \o Split(SubSeq(s, i+1, Len(s)), sep)

\* Number of leading elements of s that are in S.
LeadingIn(s, S) ==
  IF AllIn(s, S) THEN Len(s)
  ELSE (CHOOSE i \in 1..Len(s) :
          /\ s[i] \notin S
          /\ \A j \in 1..(i-1) : s[j] \in S) - 1

-----------------------------------------------------------------------------
(* Validators *)

Accept == [ isValid |-> TRUE, message |-> "", warning |-> "" ]
AcceptWarn(w) == [ isValid |-> TRUE, message |-> "", warning |-> w ]
Reject(m) == [ isValid |-> FALSE, message |-> m, warning |-> "" ]

AppNameChars == AlNum \cup Whitespace \cup { "-", "_" }

validateAppName(appName) ==
  IF Len(appName) = 0
    THEN Reject("App name is required and must be a string")
  ELSE IF Len(appName) < 2 \/ Len(appName) > 50
    THEN Reject("App name must be between 2 and 50 characters")
  ELSE IF ~ AllIn(appName, AppNameChars)
    THEN Reject("App name can only contain letters, numbers, spaces, hyphens, and underscores")
  ELSE Accept

\* new URL(url), for the input alphabet of the model (no userinfo escapes,
\* no numeric host canonicalisation): the scheme up to the first ":", and
\* for http/https the host between the slashes and the next delimiter,
\* without userinfo and port, lowercased.
SchemeChars == AlNum \cup { "+", "-", "." }
HostEnd == { "/", "\\", "?", "#" }
ForbiddenHostChars ==
  { " ", "#", "%", "/", ":", "<", ">", "?", "@", "[", "\\", "]", "^", "|" }

ParseFail == [ ok |-> FALSE, protocol |-> << >>, hostname |-> << >> ]

\* host and port of the authority, pc0 being the position of the last ":"
ParseHostPort(scheme, hp, pc0) ==
  LET host == IF pc0 = 0 THEN hp ELSE SubSeq(hp, 1, pc0 - 1)
      port == IF pc0 = 0 THEN << >> ELSE SubSeq(hp, pc0 + 1, Len(hp))
  IN  IF Len(host) = 0 \/ AnyIn(host, ForbiddenHostChars) \/ ~ AllIn(port, Digit)
        THEN ParseFail
        ELSE [ ok |-> TRUE, protocol |-> scheme \o <<":">>,
               hostname |-> ToLower(host) ]

\* the authority without its userinfo
ParseAuthority(scheme, auth, at) ==
  ParseHostPort(scheme, SubSeq(auth, at + 1, Len(auth)),
                LastIn(SubSeq(auth, at + 1, Len(auth)), {":"}))

\* what follows the slashes, up to the next delimiter
ParseAfterSlashes(scheme, after, stop) ==
  IF stop = 0
    THEN ParseAuthority(scheme, after, LastIn(after, {"@"}))
    ELSE ParseAuthority(scheme, SubSeq(after, 1, stop - 1),
                        LastIn(SubSeq(after, 1, stop - 1), {"@"}))

\* what follows "http:" or "https:"
ParseSpecial(scheme, rest, skip) ==
  ParseAfterSlashes(scheme, SubSeq(rest, skip + 1, Len(rest)),
                    FirstIn(SubSeq(rest, skip + 1, Len(rest)), HostEnd))

ParseScheme(url, scheme, rest) ==
  IF scheme \notin { <<"h","t","t","p">>, <<"h","t","t","p","s">> }
    THEN [ ok |-> TRUE, protocol |-> scheme \o <<":">>, hostname |-> << >> ]
    ELSE ParseSpecial(scheme, rest, LeadingIn(rest, { "/", "\\" }))

ParseFrom(url, colon) ==
  IF colon <= 1 \/ url[1] \notin Alpha
     \/ ~ AllIn(SubSeq(url, 1, colon - 1), SchemeChars)
    THEN ParseFail
    ELSE ParseScheme(url, ToLower(SubSeq(url, 1, colon - 1)),
                     SubSeq(url, colon + 1, Len(url)))

ParseUrl(url) == ParseFrom(url, FirstIn(url, {":"}))

\* /^[a-zA-Z0-9]([a-zA-Z0-9-]{0,61}[a-zA-Z0-9])?$/ for one label
HostLabelOk(l) ==
  /\ Len(l) >= 1
  /\ Len(l) <= 63
  /\ l[1] \in AlNum
  /\ l[Len(l)] \in AlNum
  /\ AllIn(l, AlNum \cup {"-"})

\* hostnameRegex: labels joined by "."
HostnameRegexOk(h) ==
  LET labels == Split(h, ".")
  IN  \A i \in 1..Len(labels) : HostLabelOk(labels[i])

\* the checks of the hostname that has a dot in it
validateDomain(host, parts) ==
  IF ~ HostnameRegexOk(host)
    THEN Reject("Website URL must have a valid domain name (e.g., example.com)")
  ELSE IF ~ (Len(parts[Len(parts)]) >= 2 /\ AllIn(parts[Len(parts)], Alpha))
    THEN Reject("Website URL must have a valid domain extension (e.g., .com, .org, .net)")
  ELSE Accept

\* validateHostname as it would be without the special case for localhost
validateHostnameNoLocalhost(host) ==
  IF Len(host) < 3
    THEN Reject("Website URL must have a valid hostname")
  ELSE IF ~ AnyIn(host, {"."})
    THEN Reject("Website URL must have a valid domain with extension (e.g., example.com)")
  ELSE validateDomain(host, Split(host, "."))

\* the checks of urlObj.hostname
validateHostname(host) ==
  IF Len(host) < 3
    THEN Reject("Website URL must have a valid hostname")
  ELSE IF host \in { <<"l","o","c","a","l","h","o","s","t">>,
                     <<"1","2","7",".","0",".","0",".","1">> }
    THEN AcceptWarn("Warning: Using localhost URL - this will only work for local testing")
  ELSE IF ~ AnyIn(host, {"."})
    THEN Reject("Website URL must have a valid domain with extension (e.g., example.com)")
  ELSE validateDomain(host, Split(host, "."))

\* the try block after new URL(url) has returned or thrown
validateUrlObj(urlObj) ==
  IF ~ urlObj.ok
    THEN Reject("Invalid URL format. Please enter a valid website URL (e.g., https://example.com)")
  ELSE IF urlObj.protocol \notin { <<"h","t","t","p",":">>, <<"h","t","t","p","s",":">> }
    THEN Reject("Website URL must use HTTP or HTTPS protocol")
  ELSE validateHostname(urlObj.hostname)

\* validateWebsiteUrl as it would be if it accepted https only
validateWebsiteUrlHttpsOnly(url) ==
  IF Len(url) = 0
    THEN Reject("Website URL is required")
  ELSE IF AnyIn(url, QuoteChars \cup Whitespace)
    THEN Reject("Website URL contains invalid characters (quotes, spaces not allowed)")
  ELSE IF ~ StartsWith(url, <<"h","t","t","p","s",":","/","/">>)
    THEN Reject("Website URL must use HTTPS protocol")
  ELSE validateUrlObj(ParseUrl(url))

validateWebsiteUrl(url) ==
  IF Len(url) = 0
    THEN Reject("Website URL is required")
  ELSE IF AnyIn(url, QuoteChars \cup Whitespace)
    THEN Reject("Website URL contains invalid characters (quotes, spaces not allowed)")
  ELSE IF /\ \/ StartsWith(url, <<"h","t","t","p",":">>)
             \/ StartsWith(url, <<"h","t","t","p","s",":">>)
          /\ LET c == IF StartsWith(url, <<"h","t","t","p","s",":">>) THEN 7 ELSE 6
             IN  Len(url) >= c /\ url[c] # "/"
    THEN Reject("Invalid URL format. Use https:// or http:// (e.g., https://example.com)")
  ELSE validateUrlObj(ParseUrl(url))

\* /^[a-z][a-z0-9_]*$/ for one dot-separated part
PackagePartOk(p) ==
  /\ Len(p) >= 1
  /\ p[1] \in Lower
  /\ AllIn(p, Lower \cup Digit \cup {"_"})

\* packageRegex: /^[a-z][a-z0-9_]*(\.[a-z][a-z0-9_]*)+$/
PackageRegexOk(packageName) ==
  LET parts == Split(packageName, ".")
  IN  /\ Len(parts) >= 2
      /\ \A i \in 1..Len(parts) : PackagePartOk(parts[i])

reservedPrefixes ==
  << <<"c","o","m",".","a","n","d","r","o","i","d">>,
     <<"c","o","m",".","g","o","o","g","l","e">>,
     <<"j","a","v","a">>,
     <<"j","a","v","a","x">> >>

reservedWords ==
  << <<"a","n","d","r","o","i","d">>, <<"j","a","v","a">>, <<"j","a","v","a","x">> >>

\* validatePackageName as it would be without the loop over reservedPrefixes
validatePackageNameNoPrefixes(packageName) ==
  IF Len(packageName) = 0
    THEN Reject("Package name is required")
  ELSE IF ~ PackageRegexOk(packageName)
    THEN Reject("Package name must follow Java package naming conventions")
  ELSE
    LET parts == Split(packageName, ".")
        badPart == { i \in 1..Len(parts) :
                       \E w \in 1..Len(reservedWords) : parts[i] = reservedWords[w] }
    IN
    IF Len(parts) < 3
      THEN Reject("Package name must have exactly 3 parts separated by dots (e.g., com.company.appname)")
    ELSE IF Len(parts) > 5
      THEN Reject("Package name should not have more than 5 parts for simplicity")
    ELSE IF badPart # {}
      THEN Reject("Package name cannot use reserved word")
    ELSE Accept

validatePackageName(packageName) ==
  IF Len(packageName) = 0
    THEN Reject("Package name is required")
  ELSE IF ~ PackageRegexOk(packageName)
    THEN Reject("Package name must follow Java package naming conventions")
  ELSE
    LET parts == Split(packageName, ".")
        badPrefix == { i \in 1..Len(reservedPrefixes) :
                         \/ StartsWith(packageName, reservedPrefixes[i] \o <<".">>)
                         \/ packageName = reservedPrefixes[i] }
        badPart == { i \in 1..Len(parts) :
                       \E w \in 1..Len(reservedWords) : parts[i] = reservedWords[w] }
    IN
    IF Len(parts) < 3
      THEN Reject("Package name must have exactly 3 parts separated by dots (e.g., com.company.appname)")
    ELSE IF Len(parts) > 5
      THEN Reject("Package name should not have more than 5 parts for simplicity")
    ELSE IF badPrefix # {}
      THEN Reject("Package name cannot start with reserved prefix")
    ELSE IF badPart # {}
      THEN Reject("Package name cannot use reserved word")
    ELSE Accept

-----------------------------------------------------------------------------
(* Request inputs and environments explored *)

AppNames ==
  { << >>,
    <<"M","y","S","t","o","r","e">>,
    <<"a","!">> }

WebsiteUrls ==
  { <<"h","t","t","p","s",":","/","/","m","y","s","t","o","r","e","a","p","p",".","c","o","m">>,
    <<"n","o","t","-","a","-","v","a","l","i","d","-","u","r","l">>,
    <<"h","t","t","p",":","b","a","d","u","r","l">> }

PackageNames ==
  { <<"c","o","m",".","m","y","s","t","o","r","e",".","a","p","p">>,
    <<"c","o","m",".","a","n","d","r","o","i","d",".","t","e","s","t">>,
    <<"c","o","m",".","a","p","p">> }

\* req.body and req.files of one POST /api/generate-app
Requests ==
  [ appName : AppNames, websiteUrl : WebsiteUrls, packageName : PackageNames,
    logo : BOOLEAN, splash : {FALSE} ]

\* process.env and the tools the server finds on its host when
\* validateBuildEnvironment looks for them
PathStates == { "unset", "missing", "ok" }
Environments ==
  [ androidHome : PathStates, javaHome : PathStates,
    keytool : { "ok", "unavailable" } ]
EnvUnread == [ androidHome |-> "unread", javaHome |-> "unread", keytool |-> "unread" ]

\* The template directory tree found by fs.copy
TemplateKinds == { "full", "noGradlew", "noBuildGradle" }

\* What fs.copy(templateDir, appDir) puts into the Workspace.
TemplateFiles(kind) ==
  CASE kind = "full" ->
         { "android", "android/gradlew", "android/app/build.gradle",
           "android/local.properties", "GENERATED_APP_README.md" }
    [] kind = "noGradlew" ->
         { "android", "android/app/build.gradle", "GENERATED_APP_README.md" }
    [] kind = "noBuildGradle" ->
         { "android", "android/gradlew", "GENERATED_APP_README.md" }
    [] OTHER -> { }

ExitCodes == { "zero", "nonzero" }

-----------------------------------------------------------------------------
(* State *)

VARIABLES
  req,          \* the request being served
  env,          \* environment of the server process, once it has been read
  template,     \* the template tree, once it has been read
  pc,           \* position of the request handler
  response,     \* HTTP response sent for the request
  disk,         \* files and directories the request has put on disk
  sessionLog,   \* activeSessions.get(sessionId).logs
  stage,        \* child process or step the pipeline is waiting for
  started,      \* stages in the order they were started
  settled,      \* stages whose promise or child process has settled
  buildPromise, \* promise returned by buildAndSyncApp
  sync,         \* syncCapacitorWithFallback: promise, timer, capSync, first event
  fallbacks,    \* one entry per performManualSync() call: where it is
  test,         \* testAppFunctionality: promise, timer, testServer, serverStarted
  build,        \* generatePlayStoreBuilds: validation result, exit codes, results
  activeSessions, \* the activeSessions Map: session id -> logs
  sockets,      \* socket.io connections: "none", "connected" or "disconnected"
  rooms,        \* socket -> rooms (session ids) it has joined
  inbox,        \* socket -> events emitted to it, in the order they were sent
  appended,     \* history: session id -> every entry ever logged to it
  joins,        \* history: socket -> session id -> number of join-session events
  gen,          \* requests in flight: app id -> where the request is and what it holds
  uploads,      \* the uploads directory: path -> request whose upload is there
  apks,         \* the flat apks directory: file name -> request whose build is there
  download,     \* the answer of the artifact download endpoint called last, if
                \* no request has moved on since
  interference  \* history: a request touched what belongs to another one

pipelineVars == << req, env, template, pc, response, disk, sessionLog, stage, started,
                   settled, buildPromise, sync, fallbacks, test, build >>

reporterVars == << activeSessions, sockets, rooms, inbox, appended, joins >>

sharedVars == << gen, uploads, apks, download, interference >>

vars == << pipelineVars, reporterVars, sharedVars >>

-----------------------------------------------------------------------------
(* Progress reporter *)

MaxSessionLogs == 1000

\* logToSession as it would be had it kept the first 1000 entries: slice(0, 1000)
logToSessionKeepFirst(logs, message, type) ==
  LET pushed == Append(logs, [ message |-> message, type |-> type ])
  IN  IF Len(pushed) > MaxSessionLogs
        THEN SubSeq(pushed, 1, MaxSessionLogs)
        ELSE pushed

\* logToSession: push, then keep only the last 1000 entries
logToSession(logs, message, type) ==
  LET pushed == Append(logs, [ message |-> message, type |-> type ])
  IN  IF Len(pushed) > MaxSessionLogs
        THEN SubSeq(pushed, Len(pushed) - MaxSessionLogs + 1, Len(pushed))
        ELSE pushed

RECURSIVE logAll(_, _)
logAll(logs, entries) ==
  IF entries = << >> THEN logs
  ELSE logAll(logToSession(logs, entries[1][1], entries[1][2]), Tail(entries))

-----------------------------------------------------------------------------
(* HTTP responses *)

NoResponse == [ status |-> 0, success |-> FALSE, message |-> "", urls |-> FALSE ]

ValidationFailure(message) ==
  [ status |-> 400, success |-> FALSE, message |-> message, urls |-> FALSE ]

GenerationFailure ==
  [ status |-> 500, success |-> FALSE, message |-> "Failed to generate app", urls |-> FALSE ]

GenerationSuccess ==
  [ status |-> 200, success |-> TRUE,
    message |-> "Play Store-ready app generated successfully!", urls |-> TRUE ]

-----------------------------------------------------------------------------
(* Initial state *)

NoSync == [ promise |-> "none", timer |-> "none", capSync |-> "none",
            killSent |-> FALSE, first |-> "none", closeCode |-> "none" ]
NoTest == [ promise |-> "none", timer |-> "none", testServer |-> "none",
            serverStarted |-> FALSE ]
NoBuild == [ validation |-> "none", errors |-> {}, warnings |-> {},
             keystorePromise |-> "none", genCode |-> "none", verifyCode |-> "none",
             releasePromise |-> "none", releaseCode |-> "none", aabCode |-> "none",
             results |-> [ apk |-> FALSE, aab |-> FALSE, debug |-> FALSE ],
             invocations |-> 0 ]

\* Session ids and sockets followed by the progress reporter
SessionIds == { "s1", "s2" }
Observers == { "o1", "o2" }

\* The progress reporter after server start: no session, no connection
ReporterInit ==
  /\ activeSessions = [ sid \in {} |-> << >> ]
  /\ sockets = [ o \in Observers |-> "none" ]
  /\ rooms = [ o \in Observers |-> {} ]
  /\ inbox = [ o \in Observers |-> << >> ]
  /\ appended = [ sid \in SessionIds |-> << >> ]
  /\ joins = [ o \in Observers |-> [ sid \in SessionIds |-> 0 ] ]

\* App ids (uuidv4) of the generation requests followed together
AppIds == { "x", "y" }

NoDownload == [ status |-> 0 ]

NoGeneration ==
  [ pc |-> "idle", appName |-> << >>, sessionId |-> "none", logoPath |-> << >>,
    icon |-> "none", releaseTree |-> FALSE, results |-> {} ]

\* The directories after server start: no request, uploads and apks empty
SharedInit ==
  /\ gen = [ a \in AppIds |-> NoGeneration ]
  /\ uploads = [ path \in {} |-> "none" ]
  /\ apks = [ file \in {} |-> "none" ]
  /\ download = NoDownload
  /\ interference = {}

Init ==
  /\ ReporterInit
  /\ SharedInit
  /\ req \in Requests
  /\ env = EnvUnread
  /\ template = "unread"
  /\ pc = "idle"
  /\ response = NoResponse
  /\ disk = {}
  /\ sessionLog = << >>
  /\ stage = "none"
  /\ started = << >>
  /\ settled = {}
  /\ buildPromise = "none"
  /\ sync = NoSync
  /\ fallbacks = << >>
  /\ test = NoTest
  /\ build = NoBuild

-----------------------------------------------------------------------------
(* One turn of the event loop maps the current state to the next one.  The   *)
(* handlers below are written as functions on a snapshot of the state, so    *)
(* that a callback and the promise continuations it makes runnable compose.  *)

Snapshot ==
  [ env |-> env, template |-> template, pc |-> pc, response |-> response, disk |-> disk, log |-> sessionLog,
    stage |-> stage, started |-> started, settled |-> settled,
    buildPromise |-> buildPromise, sync |-> sync, fallbacks |-> fallbacks,
    test |-> test, build |-> build ]

Commit(s) ==
  /\ env' = s.env
  /\ template' = s.template
  /\ pc' = s.pc
  /\ response' = s.response
  /\ disk' = s.disk
  /\ sessionLog' = s.log
  /\ stage' = s.stage
  /\ started' = s.started
  /\ settled' = s.settled
  /\ buildPromise' = s.buildPromise
  /\ sync' = s.sync
  /\ fallbacks' = s.fallbacks
  /\ test' = s.test
  /\ build' = s.build
  /\ UNCHANGED req
  /\ UNCHANGED reporterVars
  /\ UNCHANGED sharedVars

Logged(s, entries) == [ s EXCEPT !.log = logAll(@, entries) ]

-----------------------------------------------------------------------------
(* POST /api/generate-app *)

\* multer diskStorage: every uploaded file is written to uploads/ before the
\* route handler runs
multerUpload(s, r) ==
  [ s EXCEPT !.pc = "handler",
             !.disk = @ \cup (IF r.logo \/ r.splash THEN {"uploads"} ELSE {})
                        \cup (IF r.logo THEN {"uploads/logo"} ELSE {})
                        \cup (IF r.splash THEN {"uploads/splash"} ELSE {}) ]

\* catch (error) of the route handler
respond500(s) ==
  [ s EXCEPT !.pc = "responded", !.response = GenerationFailure ]

\* respond400 as it would be had the app directory been created before the
\* inputs were validated
respond400AfterEnsureDir(s, what, message) ==
  [ Logged(s, << << what, "error" >> >>)
      EXCEPT !.pc = "responded", !.response = ValidationFailure(message),
             !.disk = @ \cup {"appDir"} ]

respond400(s, what, message) ==
  [ Logged(s, << << what, "error" >> >>)
      EXCEPT !.pc = "responded", !.response = ValidationFailure(message) ]

\* A validator's warning, when it gave one, goes to the session log
LogWarning(s, validation) ==
  IF validation.warning # ""
    THEN Logged(s, << << validation.warning, "warning" >> >>)
    ELSE s

\* The three validations in the handler's order, each with its 400 return
validated(s, appNameValidation, urlValidation, packageValidation) ==
  IF ~ appNameValidation.isValid
    THEN respond400(s, "App name validation failed", appNameValidation.message)
  ELSE IF ~ urlValidation.isValid
    THEN respond400(s, "Website URL validation failed", urlValidation.message)
  ELSE IF ~ packageValidation.isValid
    THEN respond400(LogWarning(s, urlValidation),
                    "Package name validation failed", packageValidation.message)
  ELSE [ Logged(LogWarning(LogWarning(s, urlValidation), packageValidation),
                << << "All inputs validated successfully!", "success" >>,
                   << "Generated app ID", "info" >>,
                   << "Creating app directory...", "info" >> >>)
           EXCEPT !.pc = "ensureDir" ]

\* The handler from its entry to its first await (fs.ensureDir).
validateInputs(s, r) ==
  validated(Logged(s, << << "Starting app generation process...", "info" >>,
                        << "App Name", "info" >>,
                        << "Website URL", "info" >>,
                        << "Package Name", "info" >>,
                        << "Validating inputs...", "info" >> >>),
            validateAppName(r.appName),
            validateWebsiteUrl(r.websiteUrl),
            validatePackageName(r.packageName))

\* await fs.ensureDir(appDir)
createAppDir(s, ok) ==
  IF ~ ok THEN respond500(s)
  ELSE [ Logged(s, << << "Copying template files...", "info" >> >>)
           EXCEPT !.pc = "copyTemplate", !.disk = @ \cup {"appDir"} ]

\* await fs.copy(templateDir, appDir)
copyTemplate(s, kind, ok) ==
  IF ~ ok THEN respond500(s)
  ELSE [ s EXCEPT !.pc = "fixGradlew", !.template = kind,
                  !.disk = @ \cup (TemplateFiles(kind) \ {"GENERATED_APP_README.md"}) ]

fixGradlewLineEndings(s, ok) ==
  LET s1 == IF "android/gradlew" \notin s.disk THEN s
            ELSE IF ok
              THEN Logged(s, << << "Fixing gradlew line endings for macOS compatibility...", "info" >>,
                                << "Gradlew line endings fixed", "success" >> >>)
              ELSE Logged(s, << << "Fixing gradlew line endings for macOS compatibility...", "info" >>,
                                << "Warning: Could not fix gradlew line endings", "warning" >> >>)
  IN  [ s1 EXCEPT !.pc = "fixConfig" ]

fixAndroidConfigPaths(s, ok) ==
  LET s1 == IF "android/local.properties" \in s.disk
              THEN Logged(s, << << "Updating Android SDK paths for environment...", "info" >> >>)
              ELSE s
      s2 == IF ok
              THEN [ Logged(IF "android/local.properties" \in s.disk
                              THEN Logged(s1, << << "Android SDK path set", "success" >> >>)
                              ELSE s1,
                            << << "Java home set", "success" >> >>)
                       EXCEPT !.disk = @ \cup { "android", "android/.gradle/config.properties" } ]
              ELSE Logged(s1, << << "Warning: Could not fix Android config paths", "warning" >> >>)
  IN  [ s2 EXCEPT !.pc = "copyReadme" ]

\* copy of GENERATED_APP_README.md, then the handler up to updateAppConfig's
\* first await
copyReadme(s, ok) ==
  LET has == "GENERATED_APP_README.md" \in TemplateFiles(s.template)
      s1 == IF has
              THEN [ Logged(s, << << "README file copied", "info" >> >>)
                       EXCEPT !.disk = @ \cup {"README.md"} ]
              ELSE s
  IN
  IF has /\ ~ ok THEN respond500(s)
  ELSE [ Logged(s1, << << "Updating app configuration...", "info" >>,
                       << "Updating capacitor configuration...", "info" >> >>)
           EXCEPT !.pc = "updateConfig" ]

\* buildAndSyncApp up to its first callback: spawn npm install
buildAndSyncApp(s) ==
  [ s EXCEPT !.buildPromise = "pending", !.stage = "install",
             !.started = Append(@, "install") ]

\* await updateAppConfig(...), then the handler up to await buildAndSyncApp
updateAppConfig(s, r, ok) ==
  IF ~ ok THEN respond500(s)
  ELSE
    LET files == { "android", "android/app/src/main/java" }
                   \cup (IF r.logo THEN {"resources/icon.png"} ELSE {})
                   \cup (IF r.splash THEN {"resources/splash.png"} ELSE {})
        s1 == [ Logged(s, << << "Updating package.json...", "info" >>,
                            << "Building and syncing app...", "info" >> >>)
                  EXCEPT !.pc = "building",
                         !.disk = (@ \cup files) \ { "uploads/logo", "uploads/splash" } ]
    IN  buildAndSyncApp(s1)

\* The handler after await buildAndSyncApp: the try/catch around it, then
\* res.json({ success: true, ... })
handlerResume(s, outcome) ==
  LET s1 == IF outcome = "resolved"
              THEN Logged(s, << << "App built and synced successfully!", "success" >> >>)
              ELSE Logged(s, << << "Build/sync failed, but app was generated", "warning" >>,
                                << "You may need to run build manually later", "info" >> >>)
  IN  [ Logged(s1, << << "App generation completed successfully!", "success" >> >>)
          EXCEPT !.buildPromise = outcome, !.stage = "end",
                 !.pc = "responded", !.response = GenerationSuccess ]

\* rejectBuild as it would be without the try/catch around await buildAndSyncApp:
\* the rejection reaches the handler's outer catch
rejectBuildUncaught(s) ==
  IF s.buildPromise = "pending"
    THEN [ respond500(s) EXCEPT !.buildPromise = "rejected", !.stage = "end" ]
    ELSE s

\* resolve() / reject() of buildAndSyncApp's promise: only the first call settles it
resolveBuild(s) == IF s.buildPromise = "pending" THEN handlerResume(s, "resolved") ELSE s
rejectBuild(s) == IF s.buildPromise = "pending" THEN handlerResume(s, "rejected") ELSE s

\* cleanupOldUploads, run at startup and every hour: uploads older than 24
\* hours are removed
cleanupOldUploads(s) ==
  [ s EXCEPT !.disk = @ \ { "uploads/logo", "uploads/splash" } ]

Upload ==
  /\ pc = "idle"
  /\ Commit(multerUpload(Snapshot, req))

Validate ==
  /\ pc = "handler"
  /\ Commit(validateInputs(Snapshot, req))

CreateAppDir ==
  /\ pc = "ensureDir"
  /\ \E ok \in BOOLEAN : Commit(createAppDir(Snapshot, ok))

CopyTemplate ==
  /\ pc = "copyTemplate"
  /\ \E kind \in TemplateKinds, ok \in BOOLEAN :
       Commit(copyTemplate(Snapshot, kind, ok))

FixGradlewLineEndings ==
  /\ pc = "fixGradlew"
  /\ \E ok \in BOOLEAN : Commit(fixGradlewLineEndings(Snapshot, ok))

FixAndroidConfigPaths ==
  /\ pc = "fixConfig"
  /\ \E ok \in BOOLEAN : Commit(fixAndroidConfigPaths(Snapshot, ok))

CopyReadme ==
  /\ pc = "copyReadme"
  /\ \E ok \in BOOLEAN : Commit(copyReadme(Snapshot, ok))

UpdateAppConfig ==
  /\ pc = "updateConfig"
  /\ \E ok \in BOOLEAN : Commit(updateAppConfig(Snapshot, req, ok))

\* An upload is older than 24 hours only long after its request was answered
CleanupOldUploads ==
  /\ pc = "responded"
  /\ disk \cap { "uploads/logo", "uploads/splash" } # {}
  /\ Commit(cleanupOldUploads(Snapshot))

-----------------------------------------------------------------------------
(* generatePlayStoreBuilds and its stages *)

StartStage(s, name, waitingFor) ==
  [ s EXCEPT !.stage = waitingFor, !.started = Append(@, name) ]

Settle(s, name) == [ s EXCEPT !.settled = @ \cup {name} ]

\* playStoreBuildsDone as it would be with the .catch on generatePlayStoreBuilds
\* rejecting buildAndSyncApp
playStoreBuildsDoneRejecting(s) == rejectBuild(s)

\* generatePlayStoreBuilds throws or returns: both callers in buildAndSyncApp
\* (.then and .catch) call resolve()
playStoreBuildsDone(s) == resolveBuild(s)

\* validateBuildEnvironment as it would be with a missing keytool reported as a
\* warning
validateBuildEnvironmentKeytoolWarning(e, files) ==
  LET errors ==
        (IF e.androidHome = "unset"
           THEN {"ANDROID_HOME or ANDROID_SDK_ROOT environment variable not set"}
           ELSE IF e.androidHome = "missing"
             THEN {"Android SDK path does not exist"} ELSE {})
        \cup (IF "android/app/build.gradle" \notin files
                THEN {"Android build.gradle not found"} ELSE {})
        \cup (IF "android/gradlew" \notin files
                THEN {"Gradle wrapper not found"} ELSE {})
      warnings ==
        (IF e.javaHome = "unset" THEN {"JAVA_HOME environment variable not set"}
         ELSE IF e.javaHome = "missing" THEN {"Java path does not exist"} ELSE {})
        \cup (IF e.keytool # "ok"
                THEN {"keytool not available (required for keystore generation)"} ELSE {})
  IN  [ valid |-> errors = {}, errors |-> errors, warnings |-> warnings ]

validateBuildEnvironment(e, files) ==
  LET errors ==
        (IF e.androidHome = "unset"
           THEN {"ANDROID_HOME or ANDROID_SDK_ROOT environment variable not set"}
           ELSE IF e.androidHome = "missing"
             THEN {"Android SDK path does not exist"} ELSE {})
        \cup (IF "android/app/build.gradle" \notin files
                THEN {"Android build.gradle not found"} ELSE {})
        \cup (IF "android/gradlew" \notin files
                THEN {"Gradle wrapper not found"} ELSE {})
        \cup (IF e.keytool # "ok"
                THEN {"keytool not available (required for keystore generation)"} ELSE {})
      warnings ==
        IF e.javaHome = "unset" THEN {"JAVA_HOME environment variable not set"}
        ELSE IF e.javaHome = "missing" THEN {"Java path does not exist"} ELSE {}
  IN  [ valid |-> errors = {}, errors |-> errors, warnings |-> warnings ]

\* createPlayStoreGuide: fs.writeFileSync of Play-Store-Guide.md
createPlayStoreGuide(s, ok) ==
  LET s1 == StartStage(s, "guide", "guide")
  IN  Settle(IF ok THEN [ s1 EXCEPT !.disk = @ \cup {"Play-Store-Guide.md"} ] ELSE s1,
             "guide")

\* debugBuild.on('close'), resolve(results), then the rest of
\* generatePlayStoreBuilds
assembleDebugClose(s, debugCode, guideOk) ==
  LET s1 == [ Settle(s, "debugApk") EXCEPT !.build.releasePromise = "resolved" ]
      s2 == IF debugCode = "zero"
              THEN [ s1 EXCEPT !.disk = @ \cup { "build/debug.apk", "apks/debug.apk" },
                               !.build.results.debug = TRUE ]
              ELSE s1
  IN  playStoreBuildsDone(createPlayStoreGuide(s2, guideOk))

\* bundleReleaseClose as it would be without the aabCode === 0 test before the
\* .aab is collected
bundleReleaseCloseAnyCode(s, aabCode, aabPresent) ==
  LET s1 == [ Settle(s, "bundle") EXCEPT !.build.aabCode = aabCode ]
      s2 == IF aabPresent
              THEN [ s1 EXCEPT !.disk = @ \cup {"build/release.aab"} ] ELSE s1
      s3 == IF "build/release.apk" \in s2.disk
              THEN [ s2 EXCEPT !.disk = @ \cup { "apks", "apks/release.apk" },
                               !.build.results.apk = TRUE ]
              ELSE [ s2 EXCEPT !.disk = @ \cup { "apks" } ]
      s4 == IF "build/release.aab" \in s3.disk
              THEN [ s3 EXCEPT !.disk = @ \cup { "apks/release.aab" },
                               !.build.results.aab = TRUE ]
              ELSE s3
  IN  StartStage(s4, "debugApk", "debugApk")

\* aabBuild.on('close'): collect the release artifacts, spawn assembleDebug.
\* aabPresent: the bundle output directory holds an .aab file when the
\* callback runs, written by this run or left there by an earlier one
bundleReleaseClose(s, aabCode, aabPresent) ==
  LET s1 == [ Settle(s, "bundle") EXCEPT !.build.aabCode = aabCode ]
      s2 == IF aabPresent
              THEN [ s1 EXCEPT !.disk = @ \cup {"build/release.aab"} ] ELSE s1
      s3 == IF "build/release.apk" \in s2.disk
              THEN [ s2 EXCEPT !.disk = @ \cup { "apks", "apks/release.apk" },
                               !.build.results.apk = TRUE ]
              ELSE [ s2 EXCEPT !.disk = @ \cup { "apks" } ]
      s4 == IF aabCode = "zero" /\ "build/release.aab" \in s3.disk
              THEN [ s3 EXCEPT !.disk = @ \cup { "apks/release.aab" },
                               !.build.results.aab = TRUE ]
              ELSE s3
  IN  StartStage(s4, "debugApk", "debugApk")

\* assembleReleaseClose as it would be with bundleRelease and assembleDebug
\* spawned together
assembleReleaseCloseParallel(s, code) ==
  LET s1 == [ Settle(s, "releaseApk") EXCEPT !.build.releaseCode = code ]
  IN  IF code # "zero"
        THEN playStoreBuildsDone([ s1 EXCEPT !.build.releasePromise = "rejected" ])
      ELSE StartStage(StartStage([ s1 EXCEPT !.disk = @ \cup {"build/release.apk"} ],
                                 "bundle", "bundle"),
                      "debugApk", "bundle")

\* assembleReleaseClose as it would be with a failed release APK tolerated
\* like a failed bundle
assembleReleaseCloseTolerant(s, code) ==
  LET s1 == [ Settle(s, "releaseApk") EXCEPT !.build.releaseCode = code ]
  IN  StartStage(IF code = "zero"
                   THEN [ s1 EXCEPT !.disk = @ \cup {"build/release.apk"} ]
                   ELSE s1,
                 "bundle", "bundle")

\* gradleBuild.on('close') of assembleRelease
assembleReleaseClose(s, code) ==
  LET s1 == [ Settle(s, "releaseApk") EXCEPT !.build.releaseCode = code ]
  IN  IF code # "zero"
        THEN playStoreBuildsDone([ s1 EXCEPT !.build.releasePromise = "rejected" ])
      ELSE StartStage([ s1 EXCEPT !.disk = @ \cup {"build/release.apk"} ],
                      "bundle", "bundle")

\* cleanClose as it would be with a nonzero exit of gradlew clean rejecting
cleanCloseRejecting(s, cleanCode) ==
  IF cleanCode # "zero"
    THEN playStoreBuildsDone([ Settle(s, "clean") EXCEPT !.build.releasePromise = "rejected" ])
    ELSE StartStage(Settle(s, "clean"), "releaseApk", "releaseApk")

\* cleanBuild.on('close')
cleanClose(s, cleanCode) ==
  StartStage(Settle(s, "clean"), "releaseApk", "releaseApk")

\* generateReleaseBuilds up to its first callback: spawn gradlew clean
generateReleaseBuilds(s) ==
  StartStage([ s EXCEPT !.build.releasePromise = "pending" ], "clean", "clean")

\* configureReleaseBuild (synchronous) and what follows it
configureReleaseBuild(s, ok) ==
  LET s1 == StartStage(s, "configure", "configure")
  IN  IF "android/app/build.gradle" \notin s.disk \/ ~ ok
        THEN playStoreBuildsDone(Settle(s1, "configure"))
        ELSE generateReleaseBuilds(
               Settle([ s1 EXCEPT !.disk = @ \cup {"android/app/build.gradle#signingConfigs"} ],
                      "configure"))

\* keystoreVerifyClose as it would be with the exit code of keytool -list ignored
keystoreVerifyCloseUnchecked(s, verifyCode, configureOk) ==
  configureReleaseBuild([ Settle(s, "keystore") EXCEPT !.build.verifyCode = verifyCode,
                                                      !.build.keystorePromise = "resolved" ],
                        configureOk)

\* verifyProcess.on('close')
keystoreVerifyClose(s, verifyCode, configureOk) ==
  LET s1 == [ Settle(s, "keystore") EXCEPT !.build.verifyCode = verifyCode ]
  IN  IF verifyCode # "zero"
        THEN playStoreBuildsDone([ s1 EXCEPT !.build.keystorePromise = "rejected" ])
        ELSE configureReleaseBuild([ s1 EXCEPT !.build.keystorePromise = "resolved" ],
                                   configureOk)

\* keystoreGenClose as it would be with the exit code of keytool -genkeypair
\* ignored
keystoreGenCloseUnchecked(s, code) ==
  [ s EXCEPT !.build.genCode = code, !.stage = "keystoreVerify",
             !.disk = @ \cup {"android/app/release-key.keystore"} ]

\* keytoolProcess.on('close')
keystoreGenClose(s, code) ==
  LET s1 == [ s EXCEPT !.build.genCode = code ]
  IN  IF code # "zero"
        THEN playStoreBuildsDone(
               Settle([ s1 EXCEPT !.build.keystorePromise = "rejected" ], "keystore"))
        ELSE [ s1 EXCEPT !.stage = "keystoreVerify",
                         !.disk = @ \cup {"android/app/release-key.keystore"} ]

\* generateKeystore up to its first callback: the credentials sidecar is
\* written, then keytool -genkeypair is spawned
generateKeystore(s) ==
  StartStage([ s EXCEPT !.disk = @ \cup {"keystore-info.json"},
                        !.build.keystorePromise = "pending" ],
             "keystore", "keystoreGen")

\* The keytool -help probe has answered: validateBuildEnvironment returns
envValidationDone(s, e) ==
  LET validationResult == validateBuildEnvironment(e, s.disk)
      s1 == [ Settle(s, "envValidation")
                EXCEPT !.env = e,
                       !.build.validation = IF validationResult.valid THEN "valid" ELSE "invalid",
                       !.build.errors = validationResult.errors,
                       !.build.warnings = validationResult.warnings ]
  IN  IF ~ validationResult.valid THEN playStoreBuildsDone(s1)
      ELSE generateKeystore(s1)

\* generatePlayStoreBuilds up to its first await
generatePlayStoreBuilds(s) ==
  LET s1 == [ s EXCEPT !.build.invocations = @ + 1 ]
  IN  IF "android" \notin s1.disk THEN playStoreBuildsDone(s1)
      ELSE StartStage(s1, "envValidation", "envValidation")

EnvValidationDone ==
  /\ stage = "envValidation"
  /\ \E e \in Environments : Commit(envValidationDone(Snapshot, e))

KeystoreGenClose ==
  /\ stage = "keystoreGen"
  /\ \E code \in ExitCodes : Commit(keystoreGenClose(Snapshot, code))

KeystoreVerifyClose ==
  /\ stage = "keystoreVerify"
  /\ \E code \in ExitCodes, ok \in BOOLEAN :
       Commit(keystoreVerifyClose(Snapshot, code, ok))

CleanClose ==
  /\ stage = "clean"
  /\ \E code \in ExitCodes : Commit(cleanClose(Snapshot, code))

AssembleReleaseClose ==
  /\ stage = "releaseApk"
  /\ \E code \in ExitCodes : Commit(assembleReleaseClose(Snapshot, code))

BundleReleaseClose ==
  /\ stage = "bundle"
  /\ \E code \in ExitCodes, aabPresent \in BOOLEAN :
       Commit(bundleReleaseClose(Snapshot, code, aabPresent))

AssembleDebugClose ==
  /\ stage = "debugApk"
  /\ \E code \in ExitCodes, ok \in BOOLEAN :
       Commit(assembleDebugClose(Snapshot, code, ok))

-----------------------------------------------------------------------------
(* testAppFunctionality *)

\* settleTest as it would be if a rejected test rejected buildAndSyncApp
settleTestFailing(s, outcome) ==
  IF s.test.promise # "pending" THEN s
  ELSE LET s1 == Settle([ s EXCEPT !.test.promise = outcome ], "smokeTest")
       IN  IF outcome = "rejected" THEN rejectBuild(s1)
           ELSE generatePlayStoreBuilds(s1)

\* Both .then and .catch of testAppFunctionality in buildAndSyncApp go on to
\* generatePlayStoreBuilds; a settled promise ignores later resolve/reject
settleTest(s, outcome) ==
  IF s.test.promise # "pending" THEN s
  ELSE generatePlayStoreBuilds(
         Settle([ s EXCEPT !.test.promise = outcome ], "smokeTest"))

\* spawn npm start and arm the 30 s timer
testAppFunctionality(s) ==
  [ StartStage(s, "smokeTest", "smokeTest")
      EXCEPT !.test = [ promise |-> "pending", timer |-> "armed",
                        testServer |-> "running", serverStarted |-> FALSE ] ]

\* testServer.stdout.on('data') with the output that marks a started server
testOutput(s) == [ s EXCEPT !.test.serverStarted = TRUE ]

\* testTimeout as it would be if it resolved only for a server seen started
testTimeoutOnlyIfStarted(s) ==
  LET s1 == [ s EXCEPT !.test.timer = "fired",
                       !.test.testServer = IF @ = "running" THEN "killed" ELSE @ ]
  IN  IF s.test.serverStarted THEN settleTest(s1, "resolved") ELSE s1

\* the setTimeout callback: kill the server and resolve either way
testTimeout(s) ==
  settleTest([ s EXCEPT !.test.timer = "fired",
                        !.test.testServer = IF @ = "running" THEN "killed" ELSE @ ],
             "resolved")

\* testServer.on('close')
testClose(s) ==
  LET s1 == [ s EXCEPT !.test.timer = IF @ = "armed" THEN "cleared" ELSE @,
                       !.test.testServer = "closed" ]
  IN  settleTest(s1, IF s.test.serverStarted THEN "resolved" ELSE "rejected")

\* testServer.on('error')
testError(s) ==
  settleTest([ s EXCEPT !.test.timer = IF @ = "armed" THEN "cleared" ELSE @,
                        !.test.testServer = "errored" ],
             "rejected")

TestOutput ==
  /\ test.testServer = "running"
  /\ ~ test.serverStarted
  /\ Commit(testOutput(Snapshot))

TestTimeout ==
  /\ test.timer = "armed"
  /\ Commit(testTimeout(Snapshot))

TestClose ==
  /\ test.testServer \in { "running", "killed", "errored" }
  /\ Commit(testClose(Snapshot))

\* a spawn failure is reported right after the spawn
TestError ==
  /\ test.testServer = "running"
  /\ test.timer = "armed"
  /\ ~ test.serverStarted
  /\ Commit(testError(Snapshot))

-----------------------------------------------------------------------------
(* syncCapacitorWithFallback *)

\* resolve() of the sync promise, and buildAndSyncApp's .then on it
resolveSync(s) ==
  IF s.sync.promise # "pending" THEN s
  ELSE testAppFunctionality(Settle([ s EXCEPT !.sync.promise = "resolved" ], "sync"))

\* reject() of the sync promise, and buildAndSyncApp's .catch on it
rejectSync(s) ==
  IF s.sync.promise # "pending" THEN s
  ELSE resolveBuild(
         Logged(Settle([ s EXCEPT !.sync.promise = "rejected" ], "sync"),
                << << "Build/sync failed, but app was generated", "warning" >>,
                   << "You may need to run build manually later", "info" >> >>))

\* A call of performManualSync(): it runs to its first await
performManualSync(s) ==
  [ Logged(s, << << "Performing manual Capacitor sync...", "info" >> >>)
      EXCEPT !.fallbacks = Append(@, "android") ]

NoteFirst(s, event) ==
  [ s EXCEPT !.sync.first = IF @ = "none" THEN event ELSE @ ]

\* spawn npx cap sync and arm the timer
syncCapacitorWithFallback(s) ==
  [ StartStage(Logged(s, << << "Attempting Capacitor sync...", "info" >> >>),
               "sync", "sync")
      EXCEPT !.sync = [ promise |-> "pending", timer |-> "armed",
                        capSync |-> "running", killSent |-> FALSE,
                        first |-> "none", closeCode |-> "none" ] ]

\* the setTimeout callback
syncTimeout(s) ==
  LET s1 == Logged(NoteFirst(s, "timeout"),
                   << << "Capacitor sync timed out, trying manual fallback...", "warning" >> >>)
      s2 == [ s1 EXCEPT !.sync.timer = "fired",
                        !.sync.killSent = @ \/ (s.sync.capSync = "running"),
                        !.sync.capSync = IF @ = "running" THEN "killed" ELSE @ ]
  IN  performManualSync(s2)

\* syncClose as it would be with a nonzero exit rejecting the sync promise
syncCloseRejecting(s, syncCode) ==
  LET s1 == [ NoteFirst(s, IF syncCode = "zero" THEN "closeZero" ELSE "closeNonzero")
                EXCEPT !.sync.timer = IF @ = "armed" THEN "cleared" ELSE @,
                       !.sync.capSync = "closed",
                       !.sync.closeCode = syncCode ]
  IN  IF syncCode = "zero"
        THEN resolveSync(Logged(s1, << << "Capacitor sync completed successfully!", "success" >> >>))
        ELSE rejectSync(s1)

\* syncClose as it would be without clearTimeout(timeout)
syncCloseKeepsTimer(s, syncCode) ==
  LET s1 == [ NoteFirst(s, IF syncCode = "zero" THEN "closeZero" ELSE "closeNonzero")
                EXCEPT !.sync.capSync = "closed",
                       !.sync.closeCode = syncCode ]
  IN  IF syncCode = "zero"
        THEN resolveSync(Logged(s1, << << "Capacitor sync completed successfully!", "success" >> >>))
        ELSE performManualSync(
               Logged(s1, << << "Capacitor sync failed, trying manual fallback...", "warning" >> >>))

\* capSync.on('close')
syncClose(s, syncCode) ==
  LET s1 == [ NoteFirst(s, IF syncCode = "zero" THEN "closeZero" ELSE "closeNonzero")
                EXCEPT !.sync.timer = IF @ = "armed" THEN "cleared" ELSE @,
                       !.sync.capSync = "closed",
                       !.sync.closeCode = syncCode ]
  IN  IF syncCode = "zero"
        THEN resolveSync(Logged(s1, << << "Capacitor sync completed successfully!", "success" >> >>))
        ELSE performManualSync(
               Logged(s1, << << "Capacitor sync failed, trying manual fallback...", "warning" >> >>))

\* capSync.on('error')
syncError(s) ==
  LET s1 == [ NoteFirst(s, "error")
                EXCEPT !.sync.timer = IF @ = "armed" THEN "cleared" ELSE @,
                       !.sync.capSync = "errored" ]
  IN  performManualSync(
        Logged(s1, << << "Capacitor sync error, trying manual fallback...", "warning" >> >>))

\* catch (error) of performManualSync
manualSyncFailed(s, i) ==
  rejectSync([ Logged(s, << << "Manual sync failed", "error" >> >>)
                 EXCEPT !.fallbacks[i] = "failed" ])

\* performManualSync: the copy of www into the Android assets directory
manualSyncAndroid(s, i, ok) ==
  IF "www" \notin s.disk THEN [ s EXCEPT !.fallbacks[i] = "ios" ]
  ELSE IF ~ ok THEN manualSyncFailed(s, i)
  ELSE [ Logged(s, << << "Web assets copied to Android platform", "success" >> >>)
           EXCEPT !.fallbacks[i] = "ios",
                  !.disk = @ \cup { "android", "android/app/src/main/assets/public" } ]

\* performManualSync: the copy of www into the iOS bundle directory, then
\* resolve()
manualSyncIos(s, i, ok) ==
  IF "www" \in s.disk /\ ~ ok THEN manualSyncFailed(s, i)
  ELSE
    LET s1 == IF "www" \in s.disk
                THEN [ Logged(s, << << "Web assets copied to iOS platform", "success" >> >>)
                         EXCEPT !.disk = @ \cup { "ios", "ios/App/App/public" } ]
                ELSE s
    IN  resolveSync([ Logged(s1, << << "Manual Capacitor sync completed successfully!", "success" >> >>)
                        EXCEPT !.fallbacks[i] = "done" ])

\* exit codes the 'close' event can carry, by the state of the child
SyncCloseCodes ==
  CASE sync.capSync = "running" -> ExitCodes
    [] sync.capSync = "killed"  -> ExitCodes \cup {"signal"}
    [] sync.capSync = "errored" -> {"spawnError"}
    [] OTHER -> {}

SyncTimeout ==
  /\ sync.timer = "armed"
  /\ Commit(syncTimeout(Snapshot))

SyncClose ==
  /\ sync.capSync \in { "running", "killed", "errored" }
  /\ \E code \in SyncCloseCodes : Commit(syncClose(Snapshot, code))

\* a spawn failure is reported right after the spawn
SyncError ==
  /\ sync.capSync = "running"
  /\ sync.timer = "armed"
  /\ Commit(syncError(Snapshot))

ManualSyncAndroid ==
  \E i \in 1..Len(fallbacks), ok \in BOOLEAN :
    /\ fallbacks[i] = "android"
    /\ Commit(manualSyncAndroid(Snapshot, i, ok))

ManualSyncIos ==
  \E i \in 1..Len(fallbacks), ok \in BOOLEAN :
    /\ fallbacks[i] = "ios"
    /\ Commit(manualSyncIos(Snapshot, i, ok))

-----------------------------------------------------------------------------
(* buildAndSyncApp: npm install, npm run build, capacitor-assets *)

\* assetsClose as it would be with a nonzero exit rejecting, as the two stages
\* before it do
assetsCloseRejecting(s, assetsCode) ==
  LET s1 == Settle(s, "assets")
  IN  IF assetsCode # "zero" THEN rejectBuild(s1)
      ELSE syncCapacitorWithFallback(s1)

\* generateAssets.on('close')
assetsClose(s, assetsCode) ==
  syncCapacitorWithFallback(Settle(s, "assets"))

\* npmBuild.on('close'); a successful build normally leaves its output in www
npmBuildClose(s, buildCode, wwwWritten) ==
  LET s1 == Settle(s, "webBuild")
  IN  IF buildCode # "zero" THEN rejectBuild(s1)
      ELSE StartStage([ s1 EXCEPT !.disk = @ \cup (IF wwwWritten THEN {"www"} ELSE {}) ],
                      "assets", "assets")

\* npmInstall.on('close')
npmInstallClose(s, code) ==
  LET s1 == Settle(s, "install")
  IN  IF code # "zero" THEN rejectBuild(s1)
      ELSE StartStage([ s1 EXCEPT !.disk = @ \cup {"node_modules"} ],
                      "webBuild", "webBuild")

NpmInstallClose ==
  /\ stage = "install"
  /\ \E code \in ExitCodes : Commit(npmInstallClose(Snapshot, code))

NpmBuildClose ==
  /\ stage = "webBuild"
  /\ \E code \in ExitCodes, www \in BOOLEAN : Commit(npmBuildClose(Snapshot, code, www))

AssetsClose ==
  /\ stage = "assets"
  /\ \E code \in ExitCodes : Commit(assetsClose(Snapshot, code))

-----------------------------------------------------------------------------
(* Specification *)

Next ==
  \/ Upload
  \/ Validate
  \/ CreateAppDir
  \/ CopyTemplate
  \/ FixGradlewLineEndings
  \/ FixAndroidConfigPaths
  \/ CopyReadme
  \/ UpdateAppConfig
  \/ CleanupOldUploads
  \/ NpmInstallClose
  \/ NpmBuildClose
  \/ AssetsClose
  \/ SyncTimeout
  \/ SyncClose
  \/ SyncError
  \/ ManualSyncAndroid
  \/ ManualSyncIos
  \/ TestOutput
  \/ TestTimeout
  \/ TestClose
  \/ TestError
  \/ EnvValidationDone
  \/ KeystoreGenClose
  \/ KeystoreVerifyClose
  \/ CleanClose
  \/ AssembleReleaseClose
  \/ BundleReleaseClose
  \/ AssembleDebugClose

Spec == Init /\ [][Next]_vars

\* The steps that happen once they can: continuations of file system calls,
\* exits of the tools that are taken to exit, and the two 30 s timers.  The
\* sync tool and the smoke-test server may never exit or write anything.
Progress ==
  \/ Upload
  \/ Validate
  \/ CreateAppDir
  \/ CopyTemplate
  \/ FixGradlewLineEndings
  \/ FixAndroidConfigPaths
  \/ CopyReadme
  \/ UpdateAppConfig
  \/ NpmInstallClose
  \/ NpmBuildClose
  \/ AssetsClose
  \/ SyncTimeout
  \/ ManualSyncAndroid
  \/ ManualSyncIos
  \/ TestTimeout
  \/ EnvValidationDone
  \/ KeystoreGenClose
  \/ KeystoreVerifyClose
  \/ CleanClose
  \/ AssembleReleaseClose
  \/ BundleReleaseClose
  \/ AssembleDebugClose

SpecLive == Init /\ [][Next]_vars /\ WF_vars(Progress)

-----------------------------------------------------------------------------
(* Progress reporter: sessions and their observers *)
(*                                                                           *)
(* Spec follows one request and keeps the buffer of its session in           *)
(* sessionLog.  The specifications below follow the reporter itself: several *)
(* sessions, and sockets that connect, join sessions and disconnect while    *)
(* log events arrive.  The join-session handler and logToSession are         *)
(* synchronous, so each is one turn of the event loop; events emitted to a   *)
(* socket arrive in the order they were emitted.  The message of a log event *)
(* is its number, which stands for the uuid of the entry.                    *)

\* Log events followed with observers
MaxAppends == 3
\* join-session events followed for one socket
MaxJoins == 2
\* Log events of the one session followed up to the buffer's limit and beyond
MaxBurst == 1003

\* activeSessions.get(sessionId).logs, of a session that may not exist yet
sessionLogs(sessions, sessionId) ==
  IF sessionId \in DOMAIN sessions THEN sessions[sessionId] ELSE << >>

\* logToSession: the session is created if needed and the entry stored
storeLog(sessions, sessionId, message, type) ==
  [ sid \in DOMAIN sessions \cup { sessionId } |->
      IF sid = sessionId
        THEN logToSession(sessionLogs(sessions, sessionId), message, type)
        ELSE sessions[sid] ]

\* emitLog as it would be with io.emit('log', logEntry): to every socket
emitLogToAll(boxes, members, sessionId, logEntry) ==
  [ o \in DOMAIN boxes |-> Append(boxes[o], [ event |-> "log", data |-> logEntry ]) ]

\* io.to(sessionId).emit('log', logEntry)
emitLog(boxes, members, sessionId, logEntry) ==
  [ o \in DOMAIN boxes |->
      IF sessionId \in members[o]
        THEN Append(boxes[o], [ event |-> "log", data |-> logEntry ])
        ELSE boxes[o] ]

\* the replay as it would be had the join-session handler not sent one
emitSessionLogsNever(boxes, sessions, o, sessionId) == boxes

\* if (activeSessions.has(sessionId)) socket.emit('session-logs', session.logs)
emitSessionLogs(boxes, sessions, o, sessionId) ==
  IF sessionId \in DOMAIN sessions
    THEN [ boxes EXCEPT ![o] = Append(@, [ event |-> "session-logs",
                                           data |-> sessions[sessionId] ]) ]
    ELSE boxes

\* io.on('connection')
Connection ==
  \E o \in Observers :
    /\ sockets[o] = "none"
    /\ sockets' = [ sockets EXCEPT ![o] = "connected" ]
    /\ UNCHANGED << activeSessions, rooms, inbox, appended, joins >>
    /\ UNCHANGED << pipelineVars, sharedVars >>

\* join-session events received from socket o so far
JoinCount(o) == joins[o]["s1"] + joins[o]["s2"]

\* socket.on('join-session')
JoinSession ==
  \E o \in Observers, sessionId \in SessionIds :
    /\ sockets[o] = "connected"
    /\ JoinCount(o) < MaxJoins
    /\ rooms' = [ rooms EXCEPT ![o] = @ \cup { sessionId } ]
    /\ inbox' = emitSessionLogs(inbox, activeSessions, o, sessionId)
    /\ joins' = [ joins EXCEPT ![o][sessionId] = @ + 1 ]
    /\ UNCHANGED << activeSessions, sockets, appended >>
    /\ UNCHANGED << pipelineVars, sharedVars >>

\* socket.on('disconnect'): the socket has left all its rooms
Disconnect ==
  \E o \in Observers :
    /\ sockets[o] = "connected"
    /\ sockets' = [ sockets EXCEPT ![o] = "disconnected" ]
    /\ rooms' = [ rooms EXCEPT ![o] = {} ]
    /\ UNCHANGED << activeSessions, inbox, appended, joins >>
    /\ UNCHANGED << pipelineVars, sharedVars >>

\* Number of logToSession calls so far
Appends == Len(appended["s1"]) + Len(appended["s2"])

\* One call of logToSession(sessionId, message, type)
LogEvent(sessionId, message, type) ==
  /\ activeSessions' = storeLog(activeSessions, sessionId, message, type)
  /\ inbox' = emitLog(inbox, rooms, sessionId, [ message |-> message, type |-> type ])
  /\ appended' = [ appended EXCEPT ![sessionId] =
                      Append(@, [ message |-> message, type |-> type ]) ]
  /\ UNCHANGED << sockets, rooms, joins >>
  /\ UNCHANGED << pipelineVars, sharedVars >>

\* A log event of any session, while sockets come and go
Log ==
  /\ Appends < MaxAppends
  /\ \E sessionId \in SessionIds : LogEvent(sessionId, Appends + 1, "info")

\* A long run of log events of one session, nobody watching
LogBurst ==
  /\ Len(appended["s1"]) < MaxBurst
  /\ LogEvent("s1", Appends + 1, "info")

\* The server after start, for the specifications that do not follow one
\* request through its pipeline
ServerInit ==
  /\ ReporterInit
  /\ SharedInit
  /\ req = CHOOSE r \in Requests : TRUE
  /\ env = EnvUnread
  /\ template = "unread"
  /\ pc = "idle"
  /\ response = NoResponse
  /\ disk = {}
  /\ sessionLog = << >>
  /\ stage = "none"
  /\ started = << >>
  /\ settled = {}
  /\ buildPromise = "none"
  /\ sync = NoSync
  /\ fallbacks = << >>
  /\ test = NoTest
  /\ build = NoBuild

ReporterNext == Connection \/ JoinSession \/ Disconnect \/ Log

SpecReporter == ServerInit /\ [][ReporterNext]_vars

BurstNext == LogBurst

SpecBurst == ServerInit /\ [][BurstNext]_vars

-----------------------------------------------------------------------------
(* Requests side by side: uploads, session ids and the flat apks directory *)
(*                                                                           *)
(* Two generation requests are followed together with the artifact download  *)
(* endpoints.  What Spec follows stage by stage is cut here to the steps     *)
(* that touch something outside the request's own app directory: the upload, *)
(* the start of the handler, the logo copy of updateAppConfig, and the       *)
(* collection of the build outputs into the apks directory.  No socket is    *)
(* connected, so the 'log' events reach nobody.                              *)

\* Date.now() values seen by the upload middleware
MaxTime == 1
Times == 1..MaxTime

\* file.originalname of the uploaded logo
OriginalName == "logo.png"

GenAppNames ==
  { <<"M","y"," ","A","p","p">>,
    <<"m","y","-","a","p","p">>,
    <<"S","h","o","p">> }

\* req.body.sessionId; "none" when the client did not send one
BodySessionIds == { "s1", "none" }

\* uuidv4() for the session of a request that did not bring an id
UuidOf == [ a \in AppIds |-> IF a = "x" THEN "u1" ELSE "u2" ]

EndsWith(s, p) ==
  /\ Len(p) <= Len(s)
  /\ SubSeq(s, Len(s) - Len(p) + 1, Len(s)) = p

Includes(s, p) ==
  \E i \in 0..(Len(s) - Len(p)) : SubSeq(s, i + 1, i + Len(p)) = p

DotApk == <<".","a","p","k">>
DotAab == <<".","a","a","b">>
DebugWord == <<"d","e","b","u","g">>
ReleaseWord == <<"r","e","l","e","a","s","e">>

\* appName.toLowerCase().replace(/[^a-z0-9]/g, '-')
cleanAppName(appName) ==
  [ i \in 1..Len(appName) |->
      IF ToLowerChar(appName[i]) \in Lower \cup Digit
        THEN ToLowerChar(appName[i]) ELSE "-" ]

finalApkName(appName) == cleanAppName(appName) \o <<"-">> \o ReleaseWord \o DotApk
finalAabName(appName) == cleanAppName(appName) \o <<"-">> \o ReleaseWord \o DotAab
finalDebugApkName(appName) == cleanAppName(appName) \o <<"-">> \o DebugWord \o DotApk

\* Written as it would be if an existing file were kept: the first writer wins
WrittenIfAbsent(dir, name, a) ==
  [ n \in DOMAIN dir \cup { name } |-> IF n \in DOMAIN dir THEN dir[n] ELSE a ]

\* A directory after file `name` was written by request a
Written(dir, name, a) ==
  [ n \in DOMAIN dir \cup { name } |-> IF n = name THEN a ELSE dir[n] ]

\* fs.copyFileSync of each of `names` into the directory, by request a
RECURSIVE WrittenAll(_, _, _)
WrittenAll(dir, names, a) ==
  IF names = {} THEN dir
  ELSE LET name == CHOOSE n \in names : TRUE
       IN  WrittenAll(Written(dir, name, a), names \ { name }, a)

Removed(dir, name) == [ n \in DOMAIN dir \ { name } |-> dir[n] ]

\* History: request a did `what` to files of the directory that are another's
Touched(dir, names, a, what) ==
  { [ by |-> a, of |-> dir[n], what |-> what ] :
      n \in { m \in names \cap DOMAIN dir : dir[m] # a } }

\* logToSession calls of one callback, on the session map
storeLogs(sessions, sessionId, entries) ==
  [ sid \in DOMAIN sessions \cup { sessionId } |->
      IF sid = sessionId
        THEN logAll(sessionLogs(sessions, sessionId), entries)
        ELSE sessions[sid] ]

\* multer: the logo, when there is one, is written to uploads/<Date.now()>-<originalname>
ReceiveUpload ==
  \E a \in AppIds, logo \in BOOLEAN, now \in Times :
    /\ gen[a].pc = "idle"
    /\ gen' = [ gen EXCEPT ![a].pc = "uploaded",
                           ![a].logoPath = IF logo THEN << now, OriginalName >> ELSE << >> ]
    /\ uploads' = IF logo THEN Written(uploads, << now, OriginalName >>, a) ELSE uploads
    /\ interference' = interference \cup
         (IF logo THEN Touched(uploads, { << now, OriginalName >> }, a, "upload overwritten")
                  ELSE {})
    /\ download' = NoDownload
    /\ UNCHANGED apks
    /\ UNCHANGED << pipelineVars, reporterVars >>

\* The handler from its entry to the copied template: session id, validation,
\* app id, app directory
StartGeneration ==
  \E a \in AppIds, appName \in GenAppNames, bodySessionId \in BodySessionIds :
    LET sessionId == IF bodySessionId = "none" THEN UuidOf[a] ELSE bodySessionId
    IN  /\ gen[a].pc = "uploaded"
        /\ validateAppName(appName).isValid
        /\ gen' = [ gen EXCEPT ![a].pc = "materialized", ![a].appName = appName,
                               ![a].sessionId = sessionId ]
        /\ activeSessions' =
             storeLogs(activeSessions, sessionId,
                       << << "Starting app generation process...", "info" >>,
                          << "All inputs validated successfully!", "success" >>,
                          << "Creating app directory...", "info" >> >>)
        /\ interference' = interference \cup
             { [ by |-> a, of |-> b, what |-> "log buffer shared" ] :
                 b \in { c \in AppIds \ { a } : gen[c].sessionId = sessionId } }
        /\ download' = NoDownload
        /\ UNCHANGED << uploads, apks >>
        /\ UNCHANGED << pipelineVars, sockets, rooms, inbox, appended, joins >>

\* updateAppConfig: the logo is copied to resources/icon.png and the upload
\* removed; a missing upload makes fs.copy throw and the request end with 500
ConfigureApp ==
  \E a \in AppIds :
    /\ gen[a].pc = "materialized"
    /\ IF gen[a].logoPath = << >>
         THEN /\ gen' = [ gen EXCEPT ![a].pc = "configured" ]
              /\ UNCHANGED << uploads, interference >>
         ELSE IF gen[a].logoPath \in DOMAIN uploads
           THEN /\ gen' = [ gen EXCEPT ![a].pc = "configured",
                                       ![a].icon = uploads[gen[a].logoPath] ]
                /\ uploads' = Removed(uploads, gen[a].logoPath)
                /\ interference' = interference \cup
                     Touched(uploads, { gen[a].logoPath }, a, "upload read and removed")
           ELSE /\ gen' = [ gen EXCEPT ![a].pc = "failed" ]
                /\ UNCHANGED << uploads, interference >>
    /\ download' = NoDownload
    /\ UNCHANGED apks
    /\ UNCHANGED << pipelineVars, reporterVars >>

\* The end of the handler: res.json after buildAndSyncApp has settled
completeGeneration(sessions, sessionId) ==
  storeLogs(sessions, sessionId,
            << << "App generation completed successfully!", "success" >> >>)

\* The pipeline up to aabBuild.on('close'): it ends before (a stage failed and
\* the handler answers), or the release APK, and the AAB when bundleRelease
\* exited zero, are copied to the apks directory under the cleaned app name
CollectRelease ==
  \E a \in AppIds, outcome \in { "ended", "apk", "apk and aab" } :
    LET names == IF outcome = "ended" THEN {}
                 ELSE IF outcome = "apk" THEN { finalApkName(gen[a].appName) }
                 ELSE { finalApkName(gen[a].appName), finalAabName(gen[a].appName) }
    IN  /\ gen[a].pc = "configured"
        /\ gen' = [ gen EXCEPT ![a].pc = IF outcome = "ended" THEN "done" ELSE "released",
                               ![a].releaseTree = outcome # "ended",
                               ![a].results = names ]
        /\ apks' = WrittenAll(apks, names, a)
        /\ interference' = interference \cup Touched(apks, names, a, "artifact overwritten")
        /\ activeSessions' = IF outcome = "ended"
                               THEN completeGeneration(activeSessions, gen[a].sessionId)
                               ELSE activeSessions
        /\ download' = NoDownload
        /\ UNCHANGED uploads
        /\ UNCHANGED << pipelineVars, sockets, rooms, inbox, appended, joins >>

\* debugBuild.on('close'): the debug APK is copied when assembleDebug exited
\* zero; generateReleaseBuilds resolves and the handler answers
CollectDebug ==
  \E a \in AppIds, debugCode \in ExitCodes :
    LET names == IF debugCode = "zero" THEN { finalDebugApkName(gen[a].appName) } ELSE {}
    IN  /\ gen[a].pc = "released"
        /\ gen' = [ gen EXCEPT ![a].pc = "done", ![a].results = @ \cup names ]
        /\ apks' = WrittenAll(apks, names, a)
        /\ interference' = interference \cup Touched(apks, names, a, "artifact overwritten")
        /\ activeSessions' = completeGeneration(activeSessions, gen[a].sessionId)
        /\ download' = NoDownload
        /\ UNCHANGED uploads
        /\ UNCHANGED << pipelineVars, sockets, rooms, inbox, appended, joins >>

\* res.download(path, file) of a file of the apks directory or of the app's build tree
Served(endpoint, appId, file, from) ==
  [ status |-> 200, endpoint |-> endpoint, appId |-> appId, file |-> file, from |-> from ]

NotFound(endpoint, appId) == [ status |-> 404, endpoint |-> endpoint, appId |-> appId ]

\* Array.prototype.find over fs.readdir: the first match in directory order,
\* which is any of the matches
FoundIn(endpoint, appId, files, matches) ==
  { Served(endpoint, appId, file, files[file]) : file \in matches }

\* GET /api/download-apk/:appId: a debug APK of the apks directory, else any APK
\* of it; the app directory itself never holds an .apk
downloadApk(files, appId) ==
  LET debugApks == { f \in DOMAIN files : Includes(f, DebugWord) /\ EndsWith(f, DotApk) }
      apkFiles == { f \in DOMAIN files : EndsWith(f, DotApk) }
  IN  IF debugApks # {} THEN FoundIn("download-apk", appId, files, debugApks)
      ELSE IF apkFiles # {} THEN FoundIn("download-apk", appId, files, apkFiles)
      ELSE { NotFound("download-apk", appId) }

\* GET /api/download-release-apk/:appId: a release APK of the apks directory,
\* else the APK in the release output directory of the app
downloadReleaseApk(files, appId, releaseTree) ==
  LET releaseApks == { f \in DOMAIN files :
                         /\ Includes(f, ReleaseWord)
                         /\ EndsWith(f, DotApk)
                         /\ ~ Includes(f, DebugWord) }
  IN  IF releaseApks # {} THEN FoundIn("download-release-apk", appId, files, releaseApks)
      ELSE IF releaseTree
        THEN { Served("download-release-apk", appId,
                      <<"a","p","p","-">> \o ReleaseWord \o DotApk, appId) }
      ELSE { NotFound("download-release-apk", appId) }

\* GET /api/download-aab/:appId: an .aab of the apks directory
downloadAab(files, appId) ==
  LET aabFiles == { f \in DOMAIN files : EndsWith(f, DotAab) }
  IN  IF aabFiles # {} THEN FoundIn("download-aab", appId, files, aabFiles)
      ELSE { NotFound("download-aab", appId) }

DownloadApk ==
  \E appId \in AppIds :
    /\ download' \in downloadApk(apks, appId)
    /\ UNCHANGED << gen, uploads, apks, interference >>
    /\ UNCHANGED << pipelineVars, reporterVars >>

DownloadReleaseApk ==
  \E appId \in AppIds :
    /\ download' \in downloadReleaseApk(apks, appId, gen[appId].releaseTree)
    /\ UNCHANGED << gen, uploads, apks, interference >>
    /\ UNCHANGED << pipelineVars, reporterVars >>

DownloadAab ==
  \E appId \in AppIds :
    /\ download' \in downloadAab(apks, appId)
    /\ UNCHANGED << gen, uploads, apks, interference >>
    /\ UNCHANGED << pipelineVars, reporterVars >>

SharedNext ==
  \/ ReceiveUpload
  \/ StartGeneration
  \/ ConfigureApp
  \/ CollectRelease
  \/ CollectDebug
  \/ DownloadApk
  \/ DownloadReleaseApk
  \/ DownloadAab

SpecShared == ServerInit /\ [][SharedNext]_vars

-----------------------------------------------------------------------------
(* Properties *)

\* The thirteen stages in the order buildAndSyncApp and generatePlayStoreBuilds
\* chain them
StageOrder ==
  << "install", "webBuild", "assets", "sync", "smokeTest", "envValidation",
     "keystore", "configure", "clean", "releaseApk", "bundle", "debugApk", "guide" >>

Rank ==
  [ name \in { StageOrder[i] : i \in 1..Len(StageOrder) } |->
      CHOOSE i \in 1..Len(StageOrder) : StageOrder[i] = name ]

Started == { started[i] : i \in 1..Len(started) }

Responded == pc = "responded"

\* The message of the first validator, in the handler's order, that rejects the
\* request; "" when all three accept it
FirstRejection ==
  [ r \in Requests |->
      LET appNameValidation == validateAppName(r.appName)
          urlValidation     == validateWebsiteUrl(r.websiteUrl)
          packageValidation == validatePackageName(r.packageName)
      IN  IF ~ appNameValidation.isValid THEN appNameValidation.message
          ELSE IF ~ urlValidation.isValid THEN urlValidation.message
          ELSE IF ~ packageValidation.isValid THEN packageValidation.message
          ELSE "" ]

C2_SyncRejectsOnlyOnFallbackFailure ==
  /\ sync.promise = "rejected" =>
        \E i \in 1..Len(fallbacks) : fallbacks[i] = "failed"
  /\ sync.first = "closeNonzero" =>
        (sync.timer = "cleared" /\ Len(fallbacks) >= 1)
  /\ (sync.first \in { "timeout", "error" }) => Len(fallbacks) >= 1

\* C2 witness: the tool exited nonzero first, the fallback copy failed and the
\* sync promise was rejected
C2_Witness ==
  /\ sync.first = "closeNonzero"
  /\ sync.promise = "rejected"
  /\ fallbacks = << "failed" >>

\* C3: when the tool closes with exit code zero before the timer fires, the
\* sync promise is resolved, the timer is cancelled and the manual fallback
\* never runs.
C3_ZeroExitNoFallback ==
  sync.first = "closeZero" =>
    /\ sync.promise = "resolved"
    /\ sync.timer = "cleared"
    /\ fallbacks = << >>

\* C3 witness: the tool exited zero and the request has been answered since
C3_Witness ==
  /\ sync.first = "closeZero"
  /\ sync.closeCode = "zero"
  /\ Responded

\* C4: stages are started in the order of StageOrder, and a stage is started
\* only when every stage started before it has settled.
C4_StagesSequential ==
  \A i \in 1..Len(started) :
    \A j \in 1..(i - 1) :
      /\ Rank[started[j]] < Rank[started[i]]
      /\ started[j] \in settled

\* C4 witness: all thirteen stages have run
C4_Witness == started = StageOrder /\ settled = Started

\* C5: once validation and materialization have passed (buildAndSyncApp has
\* been called), the response is the success response with its URLs whichever
\* stage fails afterwards; a failure response is a 400 or a 500 sent before
\* buildAndSyncApp was called.
C5_SuccessAfterMaterialization ==
  /\ (Responded /\ buildPromise # "none") => response = GenerationSuccess
  /\ (Responded /\ ~ response.success) =>
        (buildPromise = "none" /\ response.status \in { 400, 500 })

\* C5 witness: the web build failed and the request was answered with success
C5_Witness ==
  /\ Responded
  /\ buildPromise = "rejected"
  /\ response.success
  /\ response.urls

\* C6 as stated: a request whose app directory exists is always answered with
\* success, and a request answered with 400 or 500 leaves no app directory.
C6_NoDirAfterFailure ==
  /\ (Responded /\ "appDir" \in disk) => response.success
  /\ (Responded /\ response.status \in { 400, 500 }) => "appDir" \notin disk

\* C6: a request answered with 400 leaves no app directory; once
\* materialization has completed the answer is success; a request answered
\* with a failure while its app directory exists was answered 500 before
\* materialization completed, and that directory stays on disk.
C6_DirAfterFailureOnly500 ==
  /\ (Responded /\ response.status = 400) => "appDir" \notin disk
  /\ (Responded /\ "android/app/src/main/java" \in disk) => response.success
  /\ (Responded /\ "appDir" \in disk /\ ~ response.success) =>
        (response.status = 500 /\ started = << >>)

\* C6 witness: the request was answered 500 and its app directory, with the
\* template copied into it, is on disk
C6_Witness ==
  /\ Responded
  /\ response.status = 500
  /\ { "appDir", "android/gradlew" } \subseteq disk

\* C7 as stated: a request rejected by a validator is answered 400 with
\* nothing created, nothing spawned and nothing left on disk.
C7_NothingOnDiskAfter400 ==
  (Responded /\ response.status = 400) => (disk = {} /\ started = << >>)

\* C7: a request rejected by a validator is answered 400 with the message of
\* the first validator that rejects it, with no app directory created, no
\* template copied and no child spawned; the only things it leaves on disk are
\* its uploaded files, in uploads/, until the periodic cleanup removes them.
\* The handler goes on to create the app directory only for a request that all
\* three validators accept.
C7_OnlyUploadsAfter400 ==
  /\ (Responded /\ response.status = 400) =>
        /\ FirstRejection[req] # ""
        /\ response = ValidationFailure(FirstRejection[req])
        /\ started = << >>
        /\ disk \subseteq { "uploads", "uploads/logo", "uploads/splash" }
        /\ "uploads" \in disk <=> (req.logo \/ req.splash)
  /\ pc = "ensureDir" => FirstRejection[req] = ""

\* C7 witness: a request with a logo was answered 400 and its upload is on disk
C7_Witness ==
  /\ Responded
  /\ response.status = 400
  /\ "uploads/logo" \in disk

\* C8 as stated: the pipeline ends only once syncing has been attempted.
C8_EndsOnlyAfterSync ==
  stage = "end" => "sync" \in Started

\* C8: the pipeline ends before syncing is attempted exactly when npm install
\* or the web build fails, which rejects buildAndSyncApp; once asset generation
\* has closed, with any exit code, syncing has been started.
C8_EarlyEndBeforeSync ==
  /\ buildPromise = "rejected" =>
        ("sync" \notin Started /\ started[Len(started)] \in { "install", "webBuild" })
  /\ (stage = "end" /\ "sync" \notin Started) => buildPromise = "rejected"
  /\ "assets" \in settled => "sync" \in Started

\* C8 witness: the web build failed and the pipeline ended without syncing
C8_Witness ==
  /\ stage = "end"
  /\ buildPromise = "rejected"
  /\ started = << "install", "webBuild" >>

\* C9: release configuration and the gradle wrapper runs are started only
\* after environment validation passed and keytool generated and verified the
\* keystore with exit code zero; a failed validation starts no keystore
\* generation.
C9_BuildsNeedValidEnvAndKeystore ==
  /\ (Started \cap { "configure", "clean", "releaseApk", "bundle", "debugApk" } # {}) =>
        /\ build.validation = "valid"
        /\ build.genCode = "zero"
        /\ build.verifyCode = "zero"
  /\ build.validation = "invalid" => "keystore" \notin Started

\* C9 witness: the gradle wrapper runs have all been started
C9_Witness ==
  { "clean", "releaseApk", "bundle", "debugApk" } \subseteq Started

\* C10 as stated: validation fails, and nothing is started after it, whenever
\* the SDK location, the Java location, the gradle wrapper, build.gradle or
\* keytool is missing.
C10_MissingJavaFailsValidation ==
  (/\ build.validation # "none"
   /\ \/ env.androidHome # "ok"
      \/ env.javaHome # "ok"
      \/ env.keytool # "ok"
      \/ "android/gradlew" \notin disk
      \/ "android/app/build.gradle" \notin disk)
  => (build.validation = "invalid" /\ "keystore" \notin Started)

\* C10: validation fails exactly when the SDK location, the gradle wrapper,
\* build.gradle or keytool is missing, and then nothing is started after it; a
\* missing Java location only adds a warning.
C10_ValidationErrors ==
  build.validation # "none" =>
    /\ build.validation = "invalid" <=>
          \/ env.androidHome # "ok"
          \/ env.keytool # "ok"
          \/ "android/gradlew" \notin disk
          \/ "android/app/build.gradle" \notin disk
    /\ build.validation = "invalid" => started[Len(started)] = "envValidation"
    /\ env.javaHome # "ok" <=> build.warnings # {}

\* C10 witness: keytool alone is missing, validation failed and the request
\* was answered
C10_Witness ==
  /\ build.validation = "invalid"
  /\ env = [ androidHome |-> "ok", javaHome |-> "ok", keytool |-> "unavailable" ]
  /\ { "android/gradlew", "android/app/build.gradle" } \subseteq disk
  /\ Responded

\* C11: keytool -list is started only after keytool -genkeypair has closed
\* with exit code zero; generateKeystore resolves exactly when both closed
\* with zero, and a nonzero exit of either rejects it.
C11_KeystoreVerifiedAfterGeneration ==
  /\ stage = "keystoreVerify" => build.genCode = "zero"
  /\ build.verifyCode # "none" => build.genCode = "zero"
  /\ build.keystorePromise = "resolved" <=>
        (build.genCode = "zero" /\ build.verifyCode = "zero")
  /\ build.keystorePromise = "rejected" <=>
        (build.genCode = "nonzero" \/ build.verifyCode = "nonzero")

\* C11 witness: generation exited zero, verification exited nonzero and the
\* stage was rejected
C11_Witness ==
  /\ build.genCode = "zero"
  /\ build.verifyCode = "nonzero"
  /\ build.keystorePromise = "rejected"

\* C12 as stated: when keystore generation or verification fails, the request
\* is answered with success and the run has the app directory, a debug APK
\* build attempt and the submission guide.
C12_DebugAndGuideAfterKeystoreFailure ==
  (build.keystorePromise = "rejected" /\ Responded) =>
    /\ response.success
    /\ "appDir" \in disk
    /\ "debugApk" \in Started
    /\ "guide" \in Started

\* C12: when keystore generation or verification fails, generatePlayStoreBuilds
\* throws, buildAndSyncApp resolves and the request is answered with success
\* in the same turn; the app directory and the credentials sidecar are on
\* disk, and neither release configuration, nor any gradle build (the debug
\* APK included), nor the submission guide is started.
C12_KeystoreFailureEndsBuilds ==
  build.keystorePromise = "rejected" =>
    /\ Responded
    /\ response = GenerationSuccess
    /\ buildPromise = "resolved"
    /\ { "appDir", "keystore-info.json" } \subseteq disk
    /\ Started \cap { "configure", "clean", "releaseApk", "bundle", "debugApk", "guide" } = {}
    /\ "Play-Store-Guide.md" \notin disk

\* C12 witness: keytool -genkeypair exited nonzero and the request was answered
C12_Witness ==
  /\ build.keystorePromise = "rejected"
  /\ build.genCode = "nonzero"
  /\ Responded

LogEventOf(logEntry) == [ event |-> "log", data |-> logEntry ]

\* C15: a step that logs an entry to a session puts the entry at the end of
\* that session's buffer, emits it to every socket that is in the session's
\* room and to no other socket, and leaves every other session as it was.
C15_LogEventDelivery ==
  [][ \A sid \in SessionIds :
        appended'[sid] # appended[sid] =>
          /\ sid \in DOMAIN activeSessions'
          /\ activeSessions'[sid] # << >>
          /\ activeSessions'[sid][Len(activeSessions'[sid])]
                = appended'[sid][Len(appended'[sid])]
          /\ \A o \in Observers :
                inbox'[o] = IF sid \in rooms[o]
                              THEN Append(inbox[o],
                                          LogEventOf(appended'[sid][Len(appended'[sid])]))
                              ELSE inbox[o]
          /\ \A other \in SessionIds \ { sid } :
                /\ other \in DOMAIN activeSessions' <=> other \in DOMAIN activeSessions
                /\ sessionLogs(activeSessions', other) = sessionLogs(activeSessions, other)
    ]_vars

\* C15 witness: o1 watches s1 and o2 watches s2; an entry logged to s1 has
\* reached o1 and not o2, and session s2 does not exist
C15_Witness ==
  /\ rooms["o1"] = { "s1" }
  /\ rooms["o2"] = { "s2" }
  /\ Len(appended["s1"]) = 1
  /\ inbox["o1"] = << LogEventOf(appended["s1"][1]) >>
  /\ inbox["o2"] = << >>
  /\ DOMAIN activeSessions = { "s1" }

\* C16: every session buffer holds at most 1000 entries, and they are the
\* entries most recently logged to the session, in the order they were logged.
C16_BufferKeepsLast1000 ==
  \A sid \in DOMAIN activeSessions :
    /\ Len(activeSessions[sid]) <= 1000
    /\ activeSessions[sid] =
          SubSeq(appended[sid],
                 IF Len(appended[sid]) > 1000 THEN Len(appended[sid]) - 1000 + 1 ELSE 1,
                 Len(appended[sid]))

\* C16 witness: more than 1000 entries were logged to s1, the buffer is full
\* and its oldest entry is not the first one logged
C16_Witness ==
  /\ Len(appended["s1"]) > 1000
  /\ Len(activeSessions["s1"]) = 1000
  /\ activeSessions["s1"][1] # appended["s1"][1]

\* The entries a socket has received, replays unfolded, in order of arrival
RECURSIVE EntriesOf(_)
EntriesOf(events) ==
  IF events = << >> THEN << >>
  ELSE (IF events[1].event = "log" THEN << events[1].data >> ELSE events[1].data)
         \o EntriesOf(Tail(events))

\* Those of them that were logged to session sid
Delivered(o, sid) ==
  SelectSeq(EntriesOf(inbox[o]),
            LAMBDA e : \E i \in DOMAIN appended[sid] : appended[sid][i] = e)

BuildStart ==
  CHOOSE i \in DOMAIN sessionLog : sessionLog[i].message = "Building and syncing app..."

\* Messages of the warnings and errors logged to the session after position start
WarningsSince(start) ==
  { sessionLog[i].message :
      i \in { j \in DOMAIN sessionLog :
                j > start /\ sessionLog[j].type \in { "warning", "error" } } }

\* Messages of the warnings and errors logged since buildAndSyncApp was called
PipelineWarnings == WarningsSince(BuildStart)

\* What syncCapacitorWithFallback logs to the session when the sync tool fails
SyncWarnings ==
  { "Capacitor sync timed out, trying manual fallback...",
    "Capacitor sync failed, trying manual fallback...",
    "Capacitor sync error, trying manual fallback...",
    "Manual sync failed" }

\* A stage failed, as far as the state shows it
StageFailed ==
  \/ buildPromise = "rejected"
  \/ sync.promise = "rejected"
  \/ fallbacks # << >>
  \/ test.promise = "rejected"
  \/ build.validation = "invalid"
  \/ build.keystorePromise = "rejected"
  \/ build.releasePromise = "rejected"
  \/ build.aabCode = "nonzero"
  \/ ("debugApk" \in settled /\ ~ build.results.debug)

\* The warnings logged are those of install, web build and sync failures only
OnlyInstallBuildSyncLogged(warnings) ==
  /\ "Build/sync failed, but app was generated" \in warnings
        <=> ("assets" \notin Started \/ sync.promise = "rejected")
  /\ warnings \ { "Build/sync failed, but app was generated" } \subseteq SyncWarnings
  /\ fallbacks = << >> => warnings \cap SyncWarnings = {}

\* C18 as stated: once the response is sent, a failed stage has left a warning
\* or an error in the session log.
C18_StageFailureInSessionLog ==
  (Responded /\ buildPromise # "none" /\ StageFailed) => PipelineWarnings # {}

\* C18: once the response is sent, the session log has the warning "Build/sync
\* failed, but app was generated" exactly when install or the web build failed
\* or the sync was rejected, and besides it only the warnings of the sync
\* fallback, which are there only if a fallback ran: failures of the smoke
\* test, the environment validation, the keystore and the builds leave no entry.
C18_OnlyInstallBuildSyncLogged ==
  (Responded /\ buildPromise # "none") =>
    OnlyInstallBuildSyncLogged(PipelineWarnings)

\* C18 witness: the smoke test and the keystore generation failed, the response
\* is sent and the session log has no warning and no error of the pipeline
C18_Witness ==
  /\ Responded
  /\ test.promise = "rejected"
  /\ build.keystorePromise = "rejected"
  /\ PipelineWarnings = {}


\* C19: an artifact download endpoint that answers a request for an app id
\* with a file answers with a file built by the pipeline of that app id.
C19_DownloadOnlyOwnArtifact ==
  download.status = 200 => download.from = download.appId

\* C20: no request has overwritten, read or removed an upload or an artifact
\* of another request, or logged to the session of another request.
C20_NoInterference == interference = {}


\* The three file names under which the builds of an app name are collected
ArtifactNames(appName) ==
  { finalApkName(appName), finalAabName(appName), finalDebugApkName(appName) }

HandlerSteps ==
  << "responded", "building", "updateConfig", "copyReadme", "fixConfig", "fixGradlew",
     "copyTemplate", "ensureDir", "handler", "idle" >>

Remaining ==
  1000 * ((CHOOSE i \in 1..Len(HandlerSteps) : HandlerSteps[i] = pc) - 1)
  + 100 * (Len(StageOrder) - Len(started))
  + (IF sync.timer = "armed" THEN 3 ELSE 0)
  + (CASE sync.capSync = "running" -> 8
       [] sync.capSync \in { "killed", "errored" } -> 4
       [] OTHER -> 0)
  + 2 * Cardinality({ i \in 1..Len(fallbacks) : fallbacks[i] = "android" })
  + Cardinality({ i \in 1..Len(fallbacks) : fallbacks[i] = "ios" })
  + (IF test.timer = "armed" THEN 3 ELSE 0)
  + (CASE test.testServer = "running" -> 4
       [] test.testServer \in { "killed", "errored" } -> 2
       [] OTHER -> 0)
  + (IF test.testServer = "running" /\ ~ test.serverStarted THEN 1 ELSE 0)
  + (IF build.genCode = "none" THEN 1 ELSE 0)
  + (IF build.verifyCode = "none" THEN 1 ELSE 0)

\* A scheduled step is possible: the guards of the steps of Progress
CanProgress ==
  \/ pc \in { "idle", "handler", "ensureDir", "copyTemplate", "fixGradlew", "fixConfig",
              "copyReadme", "updateConfig" }
  \/ stage \in { "install", "webBuild", "assets", "envValidation", "keystoreGen",
                 "keystoreVerify", "clean", "releaseApk", "bundle", "debugApk" }
  \/ sync.timer = "armed"
  \/ test.timer = "armed"
  \/ \E i \in 1..Len(fallbacks) : fallbacks[i] \in { "android", "ios" }

C23_TestAlwaysFollowedByBuilds ==
  /\ [](/\ build.invocations = (IF test.promise \in { "resolved", "rejected" } THEN 1 ELSE 0)
        /\ (test.promise = "rejected" => ~ test.serverStarted)
        /\ (test.promise \in { "resolved", "rejected" } =>
              /\ buildPromise # "rejected"
              /\ response \in { NoResponse, GenerationSuccess }))
  /\ [][ (test.timer = "armed" /\ test.timer' = "fired") =>
           /\ test'.testServer # "running"
           /\ (test.promise = "pending" => test'.promise = "resolved") ]_vars

\* C23 witness: the test was rejected (the server exited or failed to spawn
\* before it was seen started), the builds ran and the request was answered
C23_Witness ==
  /\ test.promise = "rejected"
  /\ build.invocations = 1
  /\ "envValidation" \in settled
  /\ response = GenerationSuccess

\* C24 as stated: whenever the sync stage has completed through the manual
\* fallback (the fallback logged its success and called resolve), the Android
\* asset directory of the Workspace holds a copy of the built web output.
C24_FallbackSuccessHasAndroidCopy ==
  \A i \in 1..Len(fallbacks) :
    fallbacks[i] = "done" => "android/app/src/main/assets/public" \in disk


-----------------------------------------------------------------------------
(* The validators on generated inputs.  A request is followed from the     *)
(* upload middleware to the end of the validation in the handler.  Names,  *)
(* URLs and package names are put together from parts; each field in turn *)
(* ranges over its generated values while the two others keep the values   *)
(* of a request that passes.                                               *)

Rep(c, n) == [ i \in 1..n |-> c ]

RECURSIVE Join(_, _)
Join(parts, sep) ==
  IF Len(parts) = 0 THEN << >>
  ELSE IF Len(parts) = 1 THEN parts[1]
  ELSE parts[1] \o sep \o Join(Tail(parts), sep)

\* sequences over S of the lengths lo..hi
SeqsOf(S, lo, hi) == UNION { [ 1..n -> S ] : n \in lo..hi }

NameSampleChars == { "a", "Z", "7", " ", "-", "_", "!", "<" }
NameLengths == { 1, 2, 50, 51, 100 }

GenAppNameInputs ==
  { << >> }
  \cup { Rep(c, n) : c \in NameSampleChars, n \in NameLengths }
  \cup { << c, d >> : c \in NameSampleChars, d \in NameSampleChars }
  \cup { <<"M","y","S","t","o","r","e">>,
       <<"T","e","s","t","A","p","p">>,
       <<"M","y"," ","A","p","p","-","1","_","x">>,
       <<"M","y","@","A","p","p","#","2","0","2","4","!">>,
       <<"'",";"," ","D","R","O","P"," ","T","A","B","L","E"," ","a","p","p","s",";"," ","-","-">>,
       <<"<","s","c","r","i","p","t",">","a","l","e","r","t","(","dquote","x","s","s","dquote",")","<","/","s","c","r","i","p","t",">">>,
       <<"a","	","b">> }

UrlSchemes == { <<"h","t","t","p">>,
    <<"h","t","t","p","s">>,
    <<"f","t","p">> }
UrlSeparators == { <<":","/","/">>,
    <<":">>,
    <<":","/">> }
UrlLabels == { <<"e","x","a","m","p","l","e">>,
    <<"i","n","s","e","c","u","r","e","-","s","i","t","e">>,
    <<"l","o","c","a","l","h","o","s","t">>,
    <<"a">>,
    <<"-","b","a","d">>,
    <<"c","0","m">>,
    <<"c","o","m">> }
UrlSuffixes == { << >>,
    <<"/","p","a","t","h">>,
    <<":","8","0","8","0">> }
MaxLabels == 2

GenUrlInputs ==
  { scheme \o sep \o Join(labels, <<".">>) \o suffix :
      scheme \in UrlSchemes, sep \in UrlSeparators,
      labels \in SeqsOf(UrlLabels, 1, MaxLabels), suffix \in UrlSuffixes }
  \cup { <<"h","t","t","p","s",":","/","/","m","y","s","t","o","r","e","a","p","p",".","c","o","m">>,
       <<"n","o","t","-","a","-","v","a","l","i","d","-","u","r","l">>,
       <<"h","t","t","p",":","b","a","d","u","r","l">>,
       <<"h","t","t","p",":","/","/","i","n","s","e","c","u","r","e","-","s","i","t","e",".","c","o","m">>,
       <<"h","t","t","p",":","/","/","1","2","7",".","0",".","0",".","1">>,
       <<"h","t","t","p","s",":","/","/","e","x","a","m","p","l","e",".","c","o","m","/","a"," ","b">>,
       <<"h","t","t","p","s",":","/","/","e","x","a","m","p","l","e",".","c","o","m","/","o","'","n","e","i","l">>,
       <<"h","t","t","p","s",":","/","/","E","X","A","M","P","L","E",".","C","o","m">>,
       <<"h","t","t","p","s",":","/","/","u","s","e","r","@","e","x","a","m","p","l","e",".","c","o","m","/","x","?","y","#","z">>,
       <<"h","t","t","p","s",":","/","/","w","w","w",".","e","x","a","m","p","l","e",".","c","o","m">>,
       <<"h","t","t","p",":","/","/","s","h","o","p",".","e","x","a","m","p","l","e",".","c","0","m">>,
       <<"h","t","t","p",":","/","/","w","w","w",".","i","n","s","e","c","u","r","e","-","s","i","t","e",".","c","o","m","/","p","a","t","h">> }

PackageHeads == { <<"c","o","m">>,
    <<"a","n","d","r","o","i","d">>,
    <<"g","o","o","g","l","e">>,
    <<"j","a","v","a">>,
    <<"j","a","v","a","x">>,
    <<"a","p","p">>,
    <<"1","a">> }
PackageTails == { <<"a","p","p","_","1">>,
    <<"j","a","v","a","x">>,
    <<"B","a","d">> }
MaxTail == 4

GenPackageInputs ==
  { Join(head \o tail, <<".">>) :
      head \in SeqsOf(PackageHeads, 1, 2), tail \in SeqsOf(PackageTails, 0, MaxTail) }
  \cup { <<"c","o","m",".","m","y","s","t","o","r","e",".","a","p","p">>,
       <<"c","o","m",".","a","n","d","r","o","i","d",".","t","e","s","t">>,
       <<"c","o","m",".","a","p","p">>,
       <<"i","n","v","a","l","i","d","-","p","a","c","k","a","g","e","-","n","a","m","e">>,
       <<"c","o","m",".","t","e","s","t","@","a","p","p",".","m","o","b","i","l","e","!">>,
       <<"c","o","m",".","a","n","d","r","o","i","d","x",".","a","p","p">>,
       <<"j","a","v","a","f","x",".","a","p","p",".","m","a","i","n">>,
       <<"c","o","m",".","t","e","s","t",".","a","p","p">>,
       <<"c","o","m",".",".","a","p","p">> }

PassingAppName == <<"T","e","s","t","A","p","p">>
PassingUrl == <<"h","t","t","p","s",":","/","/","e","x","a","m","p","l","e",".","c","o","m">>
PassingPackageName == <<"c","o","m",".","t","e","s","t",".","a","p","p">>

ValidatorRequests ==
  LET request(n, u, p) ==
        [ appName |-> n, websiteUrl |-> u, packageName |-> p,
          logo |-> FALSE, splash |-> FALSE ]
  IN  { request(n, PassingUrl, PassingPackageName) : n \in GenAppNameInputs }
      \cup { request(PassingAppName, u, PassingPackageName) : u \in GenUrlInputs }
      \cup { request(PassingAppName, PassingUrl, p) : p \in GenPackageInputs }
      \cup { request(PassingAppName, << >>, << >>) }

ValidatorsInit ==
  /\ ReporterInit
  /\ SharedInit
  /\ req \in ValidatorRequests
  /\ env = EnvUnread
  /\ template = "unread"
  /\ pc = "idle"
  /\ response = NoResponse
  /\ disk = {}
  /\ sessionLog = << >>
  /\ stage = "none"
  /\ started = << >>
  /\ settled = {}
  /\ buildPromise = "none"
  /\ sync = NoSync
  /\ fallbacks = << >>
  /\ test = NoTest
  /\ build = NoBuild

ValidatorsNext == Upload \/ Validate

SpecValidators == ValidatorsInit /\ [][ValidatorsNext]_vars


-----------------------------------------------------------------------------
(* The rules of the validators as the specification words them, on the     *)
(* text of the input                                                       *)

Validated == pc \notin { "idle", "handler" }

\* 2 to 50 characters from letters, digits, space, hyphen, underscore
WellFormedAppName(name) ==
  /\ Len(name) >= 2
  /\ Len(name) <= 50
  /\ AllIn(name, Alpha \cup Digit \cup { " ", "-", "_" })

HttpSlashes == <<"h","t","t","p",":","/","/">>
HttpsSlashes == <<"h","t","t","p","s",":","/","/">>

\* what follows the scheme and the two slashes, up to the path, query or fragment
UrlAuthority(url) ==
  LET after == IF StartsWith(url, HttpsSlashes)
                 THEN SubSeq(url, Len(HttpsSlashes) + 1, Len(url))
                 ELSE SubSeq(url, Len(HttpSlashes) + 1, Len(url))
      stop == FirstIn(after, { "/", "?", "#" })
  IN  IF stop = 0 THEN after ELSE SubSeq(after, 1, stop - 1)

\* the authority without userinfo and port
UrlHost(url) ==
  LET auth == UrlAuthority(url)
      at == LastIn(auth, {"@"})
      hostport == SubSeq(auth, at + 1, Len(auth))
      colon == FirstIn(hostport, {":"})
  IN  IF colon = 0 THEN hostport ELSE SubSeq(hostport, 1, colon - 1)

UrlPort(url) ==
  LET auth == UrlAuthority(url)
      at == LastIn(auth, {"@"})
      hostport == SubSeq(auth, at + 1, Len(auth))
      colon == FirstIn(hostport, {":"})
  IN  IF colon = 0 THEN << >> ELSE SubSeq(hostport, colon + 1, Len(hostport))

\* a label of a host name: letters, digits and inner hyphens, at most 63
WellFormedLabel(l) ==
  /\ Len(l) \in 1..63
  /\ AllIn(l, Alpha \cup Digit \cup {"-"})
  /\ l[1] # "-"
  /\ l[Len(l)] # "-"

\* two labels or more, the last one a top-level label of two letters or more
MultiLabelHostname(host) ==
  LET labels == Split(host, ".")
  IN  /\ Len(labels) >= 2
      /\ \A i \in 1..Len(labels) : WellFormedLabel(labels[i])
      /\ Len(labels[Len(labels)]) >= 2
      /\ AllIn(labels[Len(labels)], Alpha)

\* an http or https URL, free of quotes and whitespace, with such a hostname
WellFormedUrl(url) ==
  /\ StartsWith(url, HttpSlashes) \/ StartsWith(url, HttpsSlashes)
  /\ ~ AnyIn(url, QuoteChars \cup Whitespace \cup { "\\" })
  /\ MultiLabelHostname(UrlHost(url))
  /\ AllIn(UrlPort(url), Digit)

LocalhostUrl(url) ==
  /\ StartsWith(url, HttpSlashes) \/ StartsWith(url, HttpsSlashes)
  /\ UrlHost(url) = <<"l","o","c","a","l","h","o","s","t">>
  /\ AllIn(UrlPort(url), Digit)

\* lowercase letter first, then lowercase letters, digits or underscores
WellFormedSegment(segment) ==
  /\ Len(segment) >= 1
  /\ segment[1] \in Lower
  /\ \A i \in 2..Len(segment) : segment[i] \in Lower \cup Digit \cup {"_"}

\* the identifier is in the namespace com.android, com.google, java or javax
InReservedNamespace(segments) ==
  \/ segments[1] \in { <<"j","a","v","a">>, <<"j","a","v","a","x">> }
  \/ /\ Len(segments) >= 2
     /\ segments[1] = <<"c","o","m">>
     /\ segments[2] \in { <<"a","n","d","r","o","i","d">>, <<"g","o","o","g","l","e">> }

WellFormedSegments(segments) ==
  \A i \in 1..Len(segments) : WellFormedSegment(segments[i])

WellFormedPackageName(packageName) ==
  LET segments == Split(packageName, ".")
  IN  /\ Len(segments) \in 3..5
      /\ WellFormedSegments(segments)
      /\ ~ InReservedNamespace(segments)
      /\ \A i \in 1..Len(segments) : segments[i] \notin { <<"a","n","d","r","o","i","d">>, <<"j","a","v","a">>, <<"j","a","v","a","x">> }

NamedRejections ==
  /\ (req.appName = << >>
      /\ WellFormedUrl(req.websiteUrl) /\ WellFormedPackageName(req.packageName)) =>
       response = ValidationFailure("App name is required and must be a string")
  /\ (Len(req.appName) = 51 /\ AllIn(req.appName, Alpha \cup Digit \cup { " ", "-", "_" })
      /\ WellFormedUrl(req.websiteUrl) /\ WellFormedPackageName(req.packageName)) =>
       response = ValidationFailure("App name must be between 2 and 50 characters")
  /\ (req.websiteUrl = <<"h","t","t","p",":","b","a","d","u","r","l">>
      /\ WellFormedAppName(req.appName) /\ WellFormedPackageName(req.packageName)) =>
       response = ValidationFailure("Invalid URL format. Use https:// or http:// (e.g., https://example.com)")
  /\ (Len(Split(req.packageName, ".")) = 2
      /\ WellFormedSegments(Split(req.packageName, "."))
      /\ WellFormedAppName(req.appName) /\ WellFormedUrl(req.websiteUrl)) =>
       response = ValidationFailure("Package name must have exactly 3 parts separated by dots (e.g., com.company.appname)")
  /\ (Len(Split(req.packageName, ".")) \in 3..5
      /\ WellFormedSegments(Split(req.packageName, "."))
      /\ InReservedNamespace(Split(req.packageName, "."))
      /\ WellFormedAppName(req.appName) /\ WellFormedUrl(req.websiteUrl)) =>
       response = ValidationFailure("Package name cannot start with reserved prefix")

LocalhostCase ==
  /\ LocalhostUrl(req.websiteUrl)
  /\ WellFormedAppName(req.appName)
  /\ WellFormedPackageName(req.packageName)

LocalhostWarning == "Warning: Using localhost URL - this will only work for local testing"

\* C26 as stated: an empty name, a 51-character name, http:badurl, a localhost
\* URL, a 2-segment package id and a package id in a reserved namespace are
\* each rejected, with the message of the rule that was broken.
C26_SingleViolationsRejected ==
  Validated =>
    /\ NamedRejections
    /\ LocalhostCase => (response.status = 400 /\ ~ response.success)

\* C26: an empty name, a 51-character name, http:badurl, a 2-segment package id
\* and a package id in a reserved namespace are each rejected with status 400
\* and the message of the rule that was broken; a localhost URL is accepted,
\* with a warning in the session log
C26_ViolationsRejectedLocalhostWarned ==
  Validated =>
    /\ NamedRejections
    /\ LocalhostCase =>
         /\ pc = "ensureDir"
         /\ response = NoResponse
         /\ \E i \in 1..Len(sessionLog) :
              sessionLog[i] = [ message |-> LocalhostWarning, type |-> "warning" ]

\* C26 witness: a request with a localhost URL and a port has been validated
C26_Witness ==
  /\ Validated
  /\ LocalhostCase
  /\ req.websiteUrl = <<"h","t","t","p","s",":","/","/","l","o","c","a","l","h","o","s","t",":","8","0","8","0">>

\* C27: validatePackageName accepts a string exactly when it has 3 to 5
\* dot-separated segments, each a lowercase letter followed by lowercase
\* letters, digits or underscores, is in none of the reserved namespaces
\* com.android, com.google, java, javax, and has no segment android, java or
\* javax; with a valid name and URL the request is rejected exactly when the
\* package id is not such a string, and com.android.test is rejected for its
\* reserved prefix
C27_PackageAcceptedIffWellFormed ==
  /\ validatePackageName(req.packageName).isValid <=> WellFormedPackageName(req.packageName)
  /\ (Validated /\ WellFormedAppName(req.appName) /\ WellFormedUrl(req.websiteUrl)) =>
       /\ pc = "ensureDir" <=> WellFormedPackageName(req.packageName)
       /\ pc = "responded" <=> response.status = 400
       /\ req.packageName = <<"c","o","m",".","a","n","d","r","o","i","d",".","t","e","s","t">> =>
            response = ValidationFailure("Package name cannot start with reserved prefix")

\* C27 witness: com.android.test was rejected with a valid name and URL
C27_Witness ==
  /\ Validated
  /\ req.packageName = <<"c","o","m",".","a","n","d","r","o","i","d",".","t","e","s","t">>
  /\ WellFormedAppName(req.appName)
  /\ WellFormedUrl(req.websiteUrl)
  /\ response.status = 400

\* C28 as stated: a request with a plain http URL and an otherwise valid name
\* and package id is answered with a 4xx validation error, and so is every
\* request with an empty, over-long or special-character app name, a URL
\* without a scheme, a malformed package name or a missing field.
C28_PlainHttpAndInvalidRejected ==
  Validated =>
    ( ( \/ StartsWith(req.websiteUrl, HttpSlashes)
        \/ req.appName = << >>
        \/ Len(req.appName) > 50
        \/ ~ AllIn(req.appName, AppNameChars)
        \/ ~ AnyIn(req.websiteUrl, {":"})
        \/ ~ WellFormedSegments(Split(req.packageName, "."))
        \/ Len(Split(req.packageName, ".")) < 2
        \/ req.websiteUrl = << >>
        \/ req.packageName = << >> ) =>
      (response.status \in 400..499 /\ ~ response.success) )


-----------------------------------------------------------------------------
(* Template materialization with the text of the files.  Two requests are  *)
(* followed from the copy of the template to the end of updateAppConfig,   *)
(* each in its own Workspace generated-apps/<appId>.  A file is named by   *)
(* its directory, the package path below it (Java sources) and its name;   *)
(* its text is the template's text together with the values patched in.    *)

Path(dir, package, name) == [ dir |-> dir, package |-> package, name |-> name ]
Plain(dir, name) == Path(dir, << >>, name)
JavaFile(packageName, name) ==
  Path("android/app/src/main/java", Split(packageName, "."), name)

Text(base, declared) ==
  [ base |-> base, appName |-> << >>, packageName |-> declared,
    websiteUrl |-> << >>, hostname |-> << >>, value |-> "" ]

StarterPackage == <<"i","o",".","i","o","n","i","c",".","s","t","a","r","t","e","r">>
TimelessPackage == <<"c","o","m",".","e","z","a","s","s","i","s","t",".","t","i","m","e","l","e","s","s">>

SourceNames ==
  { "MainActivity.java", "MyFirebaseMessagingService.java",
    "NotificationPermissionHelper.java" }

CapacitorConfig == Plain("", "capacitor.config.ts")
PackageJson == Plain("", "package.json")
IonicConfig == Plain("", "ionic.config.json")
IndexHtml == Plain("src", "index.html")
StringsXml == Plain("android/app/src/main/res/values", "strings.xml")
BuildGradle == Plain("android/app", "build.gradle")
GoogleServices == Plain("android/app", "google-services.json")
AppComponent == Plain("src/app", "app.component.ts")
PushService == Plain("src/app/services", "push-notification.service.ts")
SwPaths == { Plain("src", "sw.js"), Plain("src/assets", "sw.js") }
NetworkSecurity == Plain("android/app/src/main/res/xml", "network_security_config.xml")
Gradlew == Plain("android", "gradlew")
LocalProperties == Plain("android", "local.properties")
ConfigProperties == Plain("android/.gradle", "config.properties")
GeneratedReadme == Plain("", "GENERATED_APP_README.md")
Readme == Plain("", "README.md")
Icon == Plain("resources", "icon.png")

ConfigPaths ==
  { CapacitorConfig, PackageJson, IonicConfig, IndexHtml, StringsXml, BuildGradle,
    GoogleServices, AppComponent, PushService, NetworkSecurity, Gradlew,
    LocalProperties, GeneratedReadme } \cup SwPaths

\* templates/ionic-webview-template: with all the files the materializer looks
\* for, without the com/ezassist/timeless tree, and with the files of src/ only
TreeKinds == { "full", "starterOnly", "sourcesOnly" }

TemplatePaths(kind) ==
  CASE kind = "full" ->
         ConfigPaths \cup { JavaFile(StarterPackage, n) : n \in SourceNames }
                     \cup { JavaFile(TimelessPackage, "MainActivity.java") }
    [] kind = "starterOnly" ->
         ConfigPaths \cup { JavaFile(StarterPackage, n) : n \in SourceNames }
    [] OTHER ->
         { AppComponent, PushService, JavaFile(StarterPackage, "MainActivity.java"),
           JavaFile(TimelessPackage, "MainActivity.java") }

\* a Java source of the template declares the package of its directory
TemplateTree(kind) ==
  [ p \in TemplatePaths(kind) |-> Text(p.name, Join(p.package, <<".">>)) ]

Has(files, p) == p \in DOMAIN files
WriteFile(files, p, text) ==
  [ q \in DOMAIN files \cup {p} |-> IF q = p THEN text ELSE files[q] ]
RemoveFile(files, p) == [ q \in DOMAIN files \ {p} |-> files[q] ]


\* fixGradlewLineEndings: carriage returns removed when the wrapper exists
fixGradlewFile(files) ==
  IF Has(files, Gradlew)
    THEN WriteFile(files, Gradlew, [ files[Gradlew] EXCEPT !.value = "lf" ])
    ELSE files

androidSdkPath(e) == IF e.androidHome = "unset" THEN "/opt/android-sdk" ELSE "$ANDROID_HOME"
javaHome(e) ==
  IF e.javaHome = "unset" THEN "/usr/lib/jvm/java-21-openjdk-amd64" ELSE "$JAVA_HOME"

\* fixAndroidConfigPaths: local.properties rewritten when it exists,
\* .gradle/config.properties written in any case
fixConfigFiles(files, e) ==
  WriteFile(IF Has(files, LocalProperties)
              THEN WriteFile(files, LocalProperties,
                             [ Text("local.properties", << >>) EXCEPT !.value = androidSdkPath(e) ])
              ELSE files,
            ConfigProperties,
            [ Text("config.properties", << >>) EXCEPT !.value = javaHome(e) ])

\* the handler's copy of GENERATED_APP_README.md to README.md
copyReadmeFile(files, tree) ==
  IF Has(tree, GeneratedReadme) THEN WriteFile(files, Readme, tree[GeneratedReadme])
  ELSE files

patchCapacitorConfig(files, r) ==
  IF Has(files, CapacitorConfig)
    THEN WriteFile(files, CapacitorConfig,
                   [ files[CapacitorConfig] EXCEPT
                       !.packageName = r.packageName, !.appName = r.appName,
                       !.value = IF r.logo # "none" THEN "CapacitorAssets" ELSE @ ])
    ELSE files

\* package.json and ionic.config.json: name
patchName(files, p, r) ==
  IF Has(files, p)
    THEN WriteFile(files, p, [ files[p] EXCEPT !.appName = cleanAppName(r.appName) ])
    ELSE files

\* index.html: title
patchTitle(files, r) ==
  IF Has(files, IndexHtml)
    THEN WriteFile(files, IndexHtml, [ files[IndexHtml] EXCEPT !.appName = r.appName ])
    ELSE files

patchStringsXml(files, r) ==
  IF Has(files, StringsXml)
    THEN WriteFile(files, StringsXml,
                   [ files[StringsXml] EXCEPT !.appName = r.appName,
                                               !.packageName = r.packageName ])
    ELSE files

patchBuildGradle(files, r) ==
  IF Has(files, BuildGradle)
    THEN WriteFile(files, BuildGradle,
                   [ files[BuildGradle] EXCEPT !.packageName = r.packageName ])
    ELSE files

\* One Java source: its text is read from the template (else from the
\* Workspace) under io/ionic/starter, the file under io/ionic/starter is
\* removed from the Workspace, and the text is written with the new package
\* declaration under the path of the requested package
moveSource(files, tree, r, name) ==
  IF Has(tree, JavaFile(StarterPackage, name))
    THEN WriteFile(IF Has(files, JavaFile(StarterPackage, name))
                     THEN RemoveFile(files, JavaFile(StarterPackage, name))
                     ELSE files,
                   JavaFile(r.packageName, name),
                   [ tree[JavaFile(StarterPackage, name)] EXCEPT !.packageName = r.packageName ])
  ELSE IF Has(files, JavaFile(StarterPackage, name))
    THEN WriteFile(RemoveFile(files, JavaFile(StarterPackage, name)),
                   JavaFile(r.packageName, name),
                   [ files[JavaFile(StarterPackage, name)] EXCEPT !.packageName = r.packageName ])
  ELSE files

\* google-services.json is taken from the template
patchGoogleServices(files, tree, r) ==
  IF Has(tree, GoogleServices)
    THEN WriteFile(files, GoogleServices,
                   [ tree[GoogleServices] EXCEPT !.packageName = r.packageName ])
    ELSE files

patchAppComponent(files, r) ==
  IF Has(files, AppComponent)
    THEN WriteFile(files, AppComponent,
                   [ files[AppComponent] EXCEPT !.websiteUrl = r.websiteUrl,
                                                 !.appName = r.appName ])
    ELSE files

patchPushService(files, r) ==
  IF Has(files, PushService)
    THEN WriteFile(files, PushService, [ files[PushService] EXCEPT !.appName = r.appName ])
    ELSE files

patchServiceWorker(files, p, r) ==
  IF Has(files, p)
    THEN WriteFile(files, p,
                   [ files[p] EXCEPT !.appName = cleanAppName(r.appName),
                                     !.websiteUrl = r.websiteUrl,
                                     !.hostname = ParseUrl(r.websiteUrl).hostname ])
    ELSE files

updateNetworkSecurityConfig(files, r) ==
  IF Has(files, NetworkSecurity)
    THEN WriteFile(files, NetworkSecurity,
                   [ files[NetworkSecurity] EXCEPT !.hostname = ParseUrl(r.websiteUrl).hostname ])
    ELSE files

\* copyLogo as it would be if the icon carried the name of the upload
copyLogoNamed(files, logo) ==
  IF logo.bytes # "none"
    THEN WriteFile(files, Icon, [ Text("icon.png", << >>) EXCEPT !.value = logo.path ])
    ELSE files

\* fs.copy(logo.path, resources/icon.png)
copyLogo(files, logo) ==
  IF logo.bytes # "none"
    THEN WriteFile(files, Icon, [ Text("icon.png", << >>) EXCEPT !.value = logo.bytes ])
    ELSE files

\* updateAppConfig on the files of the Workspace, in the order of the source
updateAppConfigFiles(files, tree, r, logo) ==
  copyLogo(
   updateNetworkSecurityConfig(
    patchServiceWorker(
     patchServiceWorker(
      patchPushService(
       patchAppComponent(
        patchGoogleServices(
         moveSource(
          moveSource(
           moveSource(
            patchBuildGradle(
             patchStringsXml(
              patchTitle(
               patchName(
                patchName(patchCapacitorConfig(files, r), PackageJson, r),
                IonicConfig, r), r), r), r),
            tree, r, "MainActivity.java"),
           tree, r, "MyFirebaseMessagingService.java"),
          tree, r, "NotificationPermissionHelper.java"),
         tree, r), r), r),
      Plain("src", "sw.js"), r),
     Plain("src/assets", "sw.js"), r), r),
   logo)

\* app name and website of the requests materialized
MaterializeApps ==
  { [ appName |-> <<"M","y"," ","A","p","p">>, websiteUrl |-> <<"h","t","t","p","s",":","/","/","m","y","s","t","o","r","e","a","p","p",".","c","o","m">> ],
    [ appName |-> <<"S","h","o","p">>, websiteUrl |-> <<"h","t","t","p",":","/","/","w","w","w",".","i","n","s","e","c","u","r","e","-","s","i","t","e",".","c","o","m","/","p","a","t","h">> ] }
MaterializePackages == { <<"c","o","m",".","m","y","s","t","o","r","e",".","a","p","p">>, StarterPackage, TimelessPackage }
LogoBytes == { "none", "logoA" }

MaterializeRequests ==
  { [ appName |-> app.appName, websiteUrl |-> app.websiteUrl,
      packageName |-> packageName, logo |-> logo ] :
      app \in MaterializeApps, packageName \in MaterializePackages, logo \in LogoBytes }

MaterializeEnvironments ==
  { [ androidHome |-> "unset", javaHome |-> "unset", keytool |-> "ok" ],
    [ androidHome |-> "ok", javaHome |-> "ok", keytool |-> "ok" ] }

\* multer's file name for the logo of a request
UploadPathOf == [ a \in AppIds |-> IF a = "x" THEN "uploads/1-logo.png" ELSE "uploads/2-logo.png" ]

NoFiles == [ p \in {} |-> Text("", << >>) ]

MaterializeInit ==
  /\ ReporterInit
  /\ \E rx \in MaterializeRequests, ry \in MaterializeRequests :
       gen = [ a \in AppIds |->
                 [ pc |-> "copyTemplate", req |-> IF a = "x" THEN rx ELSE ry,
                   files |-> NoFiles ] ]
  /\ uploads = [ path \in {} |-> "none" ]
  /\ apks = [ file \in {} |-> "none" ]
  /\ download = NoDownload
  /\ interference = {}
  /\ req = [ appName |-> PassingAppName, websiteUrl |-> PassingUrl,
             packageName |-> PassingPackageName, logo |-> FALSE, splash |-> FALSE ]
  /\ env \in MaterializeEnvironments
  /\ template \in TreeKinds
  /\ pc = "idle"
  /\ response = NoResponse
  /\ disk = {}
  /\ sessionLog = << >>
  /\ stage = "none"
  /\ started = << >>
  /\ settled = {}
  /\ buildPromise = "none"
  /\ sync = NoSync
  /\ fallbacks = << >>
  /\ test = NoTest
  /\ build = NoBuild

\* the requests after a step of request a: its files and where it goes on
Stepped(a, files, next) == [ gen EXCEPT ![a].files = files, ![a].pc = next ]

CopyTemplateFiles ==
  \E a \in AppIds :
    /\ gen[a].pc = "copyTemplate"
    /\ gen' = Stepped(a, TemplateTree(template), "fixGradlew")
    /\ UNCHANGED << pipelineVars, reporterVars, uploads, apks, download, interference >>

FixGradlewFile ==
  \E a \in AppIds :
    /\ gen[a].pc = "fixGradlew"
    /\ gen' = Stepped(a, fixGradlewFile(gen[a].files), "fixConfig")
    /\ UNCHANGED << pipelineVars, reporterVars, uploads, apks, download, interference >>

FixConfigFiles ==
  \E a \in AppIds :
    /\ gen[a].pc = "fixConfig"
    /\ gen' = Stepped(a, fixConfigFiles(gen[a].files, env), "copyReadme")
    /\ UNCHANGED << pipelineVars, reporterVars, uploads, apks, download, interference >>

CopyReadmeFile ==
  \E a \in AppIds :
    /\ gen[a].pc = "copyReadme"
    /\ gen' = Stepped(a, copyReadmeFile(gen[a].files, TemplateTree(template)), "updateConfig")
    /\ UNCHANGED << pipelineVars, reporterVars, uploads, apks, download, interference >>

UpdateAppConfigFiles ==
  \E a \in AppIds :
    /\ gen[a].pc = "updateConfig"
    /\ gen' = Stepped(a, updateAppConfigFiles(gen[a].files, TemplateTree(template), gen[a].req,
                                             [ path |-> UploadPathOf[a],
                                               bytes |-> gen[a].req.logo ]),
                      "done")
    /\ UNCHANGED << pipelineVars, reporterVars, uploads, apks, download, interference >>

MaterializeNext ==
  \/ CopyTemplateFiles
  \/ FixGradlewFile
  \/ FixConfigFiles
  \/ CopyReadmeFile
  \/ UpdateAppConfigFiles

SpecMaterialize == MaterializeInit /\ [][MaterializeNext]_vars

Materialized(a) == gen[a].pc = "done"

SourcesOf(a) ==
  { p \in DOMAIN gen[a].files : p.dir = "android/app/src/main/java" }

\* C30 as stated: after materialization no Java source is left under a package
\* path other than the requested one, and the Workspace holds exactly one
\* MainActivity, which declares the requested package.
C30_OnlyNewPackageTree ==
  \A a \in AppIds :
    Materialized(a) =>
      /\ \A p \in SourcesOf(a) : p.package = Split(gen[a].req.packageName, ".")
      /\ { p \in SourcesOf(a) : p.name = "MainActivity.java" }
           = { JavaFile(gen[a].req.packageName, "MainActivity.java") }
      /\ gen[a].files[JavaFile(gen[a].req.packageName, "MainActivity.java")].packageName
           = gen[a].req.packageName


\* C31 as stated: once updateAppConfig has begun to patch the files of the
\* Workspace, a patch that fails is skipped and the request is not aborted: it
\* is never answered with the failure response.
C31_PatchFailureSkipped ==
  (\E i \in 1..Len(sessionLog) :
     sessionLog[i].message = "Updating capacitor configuration...") =>
    response # GenerationFailure


\* C32: when assembleRelease exits nonzero, generateReleaseBuilds is rejected,
\* neither bundleRelease nor assembleDebug is ever started, nothing is copied
\* into the apks directory and no Play-Store-Guide.md is written
C32_ReleaseFailureStopsBuilds ==
  build.releaseCode = "nonzero" =>
    /\ build.releasePromise = "rejected"
    /\ \A i \in 1..Len(started) : started[i] \notin { "bundle", "debugApk", "guide" }
    /\ disk \cap { "apks/release.apk", "apks/release.aab", "apks/debug.apk",
                   "build/release.aab", "build/debug.apk" } = {}
    /\ build.results = [ apk |-> FALSE, aab |-> FALSE, debug |-> FALSE ]
    /\ "Play-Store-Guide.md" \notin disk

\* C32 witness: assembleRelease exited nonzero after a clean that succeeded
\* and the request has been answered
C32_Witness ==
  /\ build.releaseCode = "nonzero"
  /\ "clean" \in settled
  /\ response = GenerationSuccess


\* the directory the manual fallback copies the web output into, by platform
FallbackAssets ==
  [ platform \in { "android", "ios" } |->
      IF platform = "android" THEN "android/app/src/main/assets/public"
      ELSE "ios/App/App/public" ]

\* C33 as stated: the manual fallback writes only into platforms that exist;
\* the Workspace holds the fallback's copy for a platform only if the
\* platform's directory came with the template.
C33_FallbackSkipsAbsentPlatforms ==
  \A platform \in { "android", "ios" } :
    FallbackAssets[platform] \in disk => platform \in TemplateFiles(template)


-----------------------------------------------------------------------------
(* The release pre-step on the text of android/app/build.gradle              *)
(*                                                                           *)
(* configureReleaseBuild is followed on one Workspace as a function of the   *)
(* file, the KeystoreInfo and the clock reading, applied up to               *)
(* MaxApplications times.  The file is held as the facts the patterns of    *)
(* configureReleaseBuild look for.                                           *)

\* Date.now() is in milliseconds; the version code divides it by 1000
MsPerSecond == 1000

MaxApplications == 3

\* crypto.randomBytes(16).toString('hex')
Passwords == { "5f2a", "c07e" }

\* Date.now() at the applications: around the turn of a second
ClockReadings == { 0, 1, 999, 1000, 1001, 2000 }

\* generateKeystore as it would be with a key password of its own
keystoreInfoOwnKeyPassword(password, packageName, appName) ==
  [ keystoreFile |-> "release-key.keystore",
    keystorePassword |-> password,
    keyAlias |-> "release-key",
    keyPassword |-> "changeit",
    packageName |-> packageName,
    appName |-> appName ]

\* generateKeystore: the KeystoreInfo saved to keystore-info.json and resolved
keystoreInfo(password, packageName, appName) ==
  [ keystoreFile |-> "release-key.keystore",
    keystorePassword |-> password,
    keyAlias |-> "release-key",
    keyPassword |-> password,
    packageName |-> packageName,
    appName |-> appName ]

\* the signingConfigs block that configureReleaseBuild writes for a KeystoreInfo
SigningBlock(info) ==
  [ storeFile |-> "release-key.keystore",
    storePassword |-> info.keystorePassword,
    keyAlias |-> info.keyAlias,
    keyPassword |-> info.keyPassword ]

\* build.gradle as the patterns of configureReleaseBuild expect it: SDK levels
\* taken from rootProject.ext, a version code (a sequence, empty when the file
\* has no versionCode line) and name, a buildTypes block
\* whose release type has minifyEnabled false, no signingConfigs block
TemplateGradle ==
  [ compileSdk |-> "compileSdk rootProject.ext.compileSdkVersion",
    versionCode |-> << 1 >>,
    versionName |-> "1.0",
    targetSdkVersion |-> "rootProject.ext.targetSdkVersion",
    minSdkVersion |-> "rootProject.ext.minSdkVersion",
    signingConfigs |-> << >>,
    buildTypes |-> TRUE,
    release |-> "minifyEnabled false" ]

\* buildGradle.includes('compileSdk ')
includesCompileSdk(g) ==
  g.compileSdk \in { "compileSdk rootProject.ext.compileSdkVersion", "compileSdk 34" }

\* the compileSdk replacement: it is tried only when the file has no
\* 'compileSdk ', and then its pattern has nothing to match
ensureCompileSdk(g) ==
  IF ~ includesCompileSdk(g)
    THEN [ g EXCEPT !.compileSdk =
             IF @ = "compileSdk rootProject.ext.compileSdkVersion" THEN "compileSdk 34" ELSE @ ]
    ELSE g

\* the versionCode, versionName, targetSdkVersion and minSdkVersion replacements
setVersions(g, versionCode, versionName) ==
  [ g EXCEPT !.versionCode = IF @ = << >> THEN @ ELSE << versionCode >>,
             !.versionName = IF @ = "none" THEN @ ELSE versionName,
             !.targetSdkVersion = IF @ = "rootProject.ext.targetSdkVersion" THEN "34" ELSE @,
             !.minSdkVersion = IF @ = "rootProject.ext.minSdkVersion" THEN "24" ELSE @ ]

\* buildGradle.includes('signingConfigs'): a signingConfigs block, or the
\* signingConfig line of the release build type
includesSigningConfigs(g) ==
  \/ g.signingConfigs # << >>
  \/ g.release = "signingConfig signingConfigs.release"

\* the signing block goes in front of the first 'buildTypes {'
insertSigningConfig(g, info) ==
  IF g.buildTypes
    THEN [ g EXCEPT !.signingConfigs = << SigningBlock(info) >> \o @ ]
    ELSE g

\* the release build type takes the signing config when it still has
\* minifyEnabled false
signReleaseType(g) ==
  [ g EXCEPT !.release =
      IF g.buildTypes /\ @ = "minifyEnabled false"
        THEN "signingConfig signingConfigs.release" ELSE @ ]

\* what one application leaves: the file and the returned build info
Configured(g, versionCode, versionName) ==
  [ gradle |-> g, versionCode |-> versionCode, versionName |-> versionName ]

\* configureReleaseBuild as it would be with the signing block written at
\* every application
configureReleaseBuildFileInjecting(g, info, now) ==
  Configured(signReleaseType(
               insertSigningConfig(
                 setVersions(ensureCompileSdk(g), now \div MsPerSecond, "1.0.0"), info)),
             now \div MsPerSecond, "1.0.0")

\* configureReleaseBuild as it would be with Date.now() taken as it is
configureReleaseBuildFileMillis(g, info, now) ==
  LET versioned == setVersions(ensureCompileSdk(g), now, "1.0.0")
  IN  Configured(signReleaseType(IF includesSigningConfigs(versioned)
                                   THEN versioned
                                   ELSE insertSigningConfig(versioned, info)),
                 now, "1.0.0")

\* configureReleaseBuild on the text of build.gradle, at clock reading `now`
configureReleaseBuildFile(g, info, now) ==
  LET versionCode == now \div MsPerSecond
      versionName == "1.0.0"
      versioned == setVersions(ensureCompileSdk(g), versionCode, versionName)
  IN  Configured(signReleaseType(IF includesSigningConfigs(versioned)
                                   THEN versioned
                                   ELSE insertSigningConfig(versioned, info)),
                 versionCode, versionName)

\* The Workspace whose build.gradle is configured
ReleaseApp == "x"

ReleaseInit ==
  /\ ReporterInit
  /\ gen = [ a \in { ReleaseApp } |-> [ gradle |-> TemplateGradle, applied |-> << >> ] ]
  /\ uploads = [ path \in {} |-> "none" ]
  /\ apks = [ file \in {} |-> "none" ]
  /\ download = NoDownload
  /\ interference = {}
  /\ req = [ appName |-> PassingAppName, websiteUrl |-> PassingUrl,
             packageName |-> PassingPackageName, logo |-> FALSE, splash |-> FALSE ]
  /\ env = EnvUnread
  /\ template = "unread"
  /\ pc = "idle"
  /\ response = NoResponse
  /\ disk = {}
  /\ sessionLog = << >>
  /\ stage = "none"
  /\ started = << >>
  /\ settled = {}
  /\ buildPromise = "none"
  /\ sync = NoSync
  /\ fallbacks = << >>
  /\ test = NoTest
  /\ build = NoBuild

\* the applications so far on the Workspace
Applied == gen[ReleaseApp].applied

\* One application of configureReleaseBuild with a newly generated
\* KeystoreInfo; the clock does not run backwards between applications
ConfigureRelease ==
  \E password \in Passwords, now \in ClockReadings :
    LET info == keystoreInfo(password, req.packageName, req.appName)
        done == configureReleaseBuildFile(gen[ReleaseApp].gradle, info, now)
    IN  /\ Len(Applied) < MaxApplications
        /\ Applied # << >> => Applied[Len(Applied)].now <= now
        /\ gen' = [ gen EXCEPT ![ReleaseApp].gradle = done.gradle,
                               ![ReleaseApp].applied =
                                 Append(@, [ info |-> info, now |-> now,
                                             versionCode |-> done.versionCode,
                                             versionName |-> done.versionName ]) ]
        /\ UNCHANGED << pipelineVars, reporterVars, uploads, apks, download, interference >>

ReleaseNext == ConfigureRelease

SpecRelease == ReleaseInit /\ [][ReleaseNext]_vars

\* C34 as stated: after any number of applications build.gradle has exactly
\* one signingConfigs block, and the block holds the store password, key alias
\* and key password of the KeystoreInfo passed to the application.
C34_OneBlockOfPassedInfo ==
  Applied # << >> =>
    /\ Len(gen[ReleaseApp].gradle.signingConfigs) = 1
    /\ gen[ReleaseApp].gradle.signingConfigs[1] = SigningBlock(Applied[Len(Applied)].info)

\* C34: after any number of applications build.gradle has exactly one
\* signingConfigs block, and the block holds the store password, key alias and
\* key password of the KeystoreInfo of the first application, the one that
\* found no block; later applications leave the block as it is.
C34_OneBlockOfFirstInfo ==
  Applied # << >> =>
    /\ Len(gen[ReleaseApp].gradle.signingConfigs) = 1
    /\ gen[ReleaseApp].gradle.signingConfigs[1] = SigningBlock(Applied[1].info)
    /\ gen[ReleaseApp].gradle.release = "signingConfig signingConfigs.release"

\* C34 witness: a second application came with another KeystoreInfo
C34_Witness ==
  /\ Len(Applied) >= 2
  /\ Applied[2].info # Applied[1].info
  /\ Len(gen[ReleaseApp].gradle.signingConfigs) = 1

\* C36 as stated: the version code is the Unix time in whole seconds of the
\* application, the version name is "1.0.0", and of two applications at times
\* t1 < t2 the later has the strictly greater version code.
C36_VersionCodeStrictlyIncreasing ==
  /\ \A i \in 1..Len(Applied) :
       /\ Applied[i].versionCode * MsPerSecond <= Applied[i].now
       /\ Applied[i].now < (Applied[i].versionCode + 1) * MsPerSecond
       /\ Applied[i].versionName = "1.0.0"
  /\ \A i, j \in 1..Len(Applied) :
       Applied[i].now < Applied[j].now => Applied[i].versionCode < Applied[j].versionCode

\* C36: the version code is the Unix time in whole seconds of the application
\* and is what build.gradle holds after it, the version name is "1.0.0"; of
\* two applications at times t1 < t2 the later has a version code that is not
\* smaller, and a strictly greater one when t2 is a full second or more after t1.
C36_VersionCodeWholeSeconds ==
  /\ \A i \in 1..Len(Applied) :
       /\ Applied[i].versionCode * MsPerSecond <= Applied[i].now
       /\ Applied[i].now < (Applied[i].versionCode + 1) * MsPerSecond
       /\ Applied[i].versionName = "1.0.0"
  /\ Applied # << >> =>
       /\ gen[ReleaseApp].gradle.versionCode = << Applied[Len(Applied)].versionCode >>
       /\ gen[ReleaseApp].gradle.versionName = "1.0.0"
  /\ \A i, j \in 1..Len(Applied) :
       /\ Applied[i].now < Applied[j].now => Applied[i].versionCode <= Applied[j].versionCode
       /\ Applied[i].now + MsPerSecond <= Applied[j].now =>
            Applied[i].versionCode < Applied[j].versionCode

\* C36 witness: two applications within one second, and two a second apart
C36_Witness ==
  /\ Len(Applied) = 3
  /\ Applied[1].now < Applied[2].now
  /\ Applied[1].versionCode = Applied[2].versionCode
  /\ Applied[2].versionCode < Applied[3].versionCode


-----------------------------------------------------------------------------
(* The cleartext allow-list of network_security_config.xml                   *)
(*                                                                           *)
(* updateNetworkSecurityConfig is followed on one Workspace as a function of *)
(* the file and the website URL, applied up to MaxApplications times.  The   *)
(* file is held as its domain-config sections in document order, each with  *)
(* its cleartextTrafficPermitted flag and its domain entries                 *)
(* (includeSubdomains="true") in document order.                             *)

NoNetworkConfig == [ exists |-> FALSE, sections |-> << >> ]
NetworkConfig(sections) == [ exists |-> TRUE, sections |-> sections ]
DomainConfig(cleartext, domains) == [ cleartext |-> cleartext, domains |-> domains ]

LocalhostName == <<"l","o","c","a","l","h","o","s","t">>
ExampleName == <<"e","x","a","m","p","l","e",".","c","o","m">>

\* network_security_config.xml of the Workspace before the update: absent, or
\* a well-formed file with or without a cleartext section, with or without
\* the entry of the website
NetworkConfigs ==
  { NoNetworkConfig,
    NetworkConfig(<< >>),
    NetworkConfig(<< DomainConfig(TRUE, << LocalhostName >>) >>),
    NetworkConfig(<< DomainConfig(FALSE, << LocalhostName >>),
                     DomainConfig(TRUE, << >>) >>),
    NetworkConfig(<< DomainConfig(TRUE, << LocalhostName, ExampleName >>) >>) }

\* website URLs of validated requests: two spellings of one host, another host
NetworkUrls ==
  { PassingUrl,
    <<"h","t","t","p",":","/","/","E","x","a","m","p","l","e",".","c","o","m",":","8","0","/","a">>,
    <<"h","t","t","p","s",":","/","/","m","y","s","t","o","r","e","a","p","p",".","c","o","m">> }

\* networkConfig.includes(`<domain includeSubdomains="true">${domain}</domain>`)
includesDomainEntry(config, domain) ==
  \E i \in 1..Len(config.sections) :
    \E j \in 1..Len(config.sections[i].domains) : config.sections[i].domains[j] = domain

\* networkConfig.includes('<domain-config cleartextTrafficPermitted="true">')
includesCleartextSection(config) ==
  \E i \in 1..Len(config.sections) : config.sections[i].cleartext

\* the first section that permits cleartext traffic: where the pattern matches
FirstCleartextSection(config) ==
  CHOOSE i \in 1..Len(config.sections) :
    /\ config.sections[i].cleartext
    /\ \A j \in 1..(i - 1) : ~ config.sections[j].cleartext

\* the entry goes right after the opening tag of the first cleartext section,
\* or into a new cleartext section in front of </network-security-config>
addDomainEntry(config, domain) ==
  IF includesCleartextSection(config)
    THEN [ config EXCEPT !.sections[FirstCleartextSection(config)].domains =
                           << domain >> \o @ ]
    ELSE [ config EXCEPT !.sections = Append(@, DomainConfig(TRUE, << domain >>)) ]

\* what one application leaves: the file and the line written to the console
Updated(config, console) == [ config |-> config, console |-> console ]

\* updateNetworkSecurityConfig as it would be without the check for an
\* existing entry
updateNetworkSecurityConfigFileAdding(config, websiteUrl) ==
  IF ~ ParseUrl(websiteUrl).ok
    THEN Updated(config, "Failed to update network security config")
  ELSE IF ~ config.exists
    THEN Updated(config, "Network security config not found, will be created during sync")
  ELSE Updated(addDomainEntry(config, ParseUrl(websiteUrl).hostname), "Added")

\* updateNetworkSecurityConfig on the file; new URL(websiteUrl) throwing is
\* caught with everything else
updateNetworkSecurityConfigFile(config, websiteUrl) ==
  LET urlObj == ParseUrl(websiteUrl)
      domain == urlObj.hostname
  IN  IF ~ urlObj.ok
        THEN Updated(config, "Failed to update network security config")
      ELSE IF ~ config.exists
        THEN Updated(config, "Network security config not found, will be created during sync")
      ELSE IF ~ includesDomainEntry(config, domain)
        THEN Updated(addDomainEntry(config, domain), "Added")
      ELSE Updated(config, "already configured")

\* The Workspace whose allow-list is updated
NetworkApp == "x"

NetworkInit ==
  /\ ReporterInit
  /\ \E config \in NetworkConfigs :
       gen = [ a \in { NetworkApp } |->
                 [ template |-> config, config |-> config, applied |-> << >> ] ]
  /\ uploads = [ path \in {} |-> "none" ]
  /\ apks = [ file \in {} |-> "none" ]
  /\ download = NoDownload
  /\ interference = {}
  /\ req = [ appName |-> PassingAppName, websiteUrl |-> PassingUrl,
             packageName |-> PassingPackageName, logo |-> FALSE, splash |-> FALSE ]
  /\ env = EnvUnread
  /\ template = "unread"
  /\ pc = "idle"
  /\ response = NoResponse
  /\ disk = {}
  /\ sessionLog = << >>
  /\ stage = "none"
  /\ started = << >>
  /\ settled = {}
  /\ buildPromise = "none"
  /\ sync = NoSync
  /\ fallbacks = << >>
  /\ test = NoTest
  /\ build = NoBuild

\* One application of updateNetworkSecurityConfig
UpdateNetworkSecurity ==
  \E websiteUrl \in NetworkUrls :
    LET done == updateNetworkSecurityConfigFile(gen[NetworkApp].config, websiteUrl)
    IN  /\ Len(gen[NetworkApp].applied) < MaxApplications
        /\ gen' = [ gen EXCEPT ![NetworkApp].config = done.config,
                               ![NetworkApp].applied =
                                 Append(@, [ websiteUrl |-> websiteUrl,
                                             console |-> done.console ]) ]
        /\ UNCHANGED << pipelineVars, reporterVars, uploads, apks, download, interference >>

NetworkNext == UpdateNetworkSecurity

SpecNetwork == NetworkInit /\ [][NetworkNext]_vars

\* the entries of a hostname in sections i.. of the file
RECURSIVE EntriesFrom(_, _, _)
EntriesFrom(config, domain, i) ==
  IF i > Len(config.sections) THEN 0
  ELSE Cardinality({ j \in 1..Len(config.sections[i].domains) :
                       config.sections[i].domains[j] = domain })
       + EntriesFrom(config, domain, i + 1)

\* the entries of a hostname in the cleartext sections i.. of the file
RECURSIVE CleartextEntriesFrom(_, _, _)
CleartextEntriesFrom(config, domain, i) ==
  IF i > Len(config.sections) THEN 0
  ELSE (IF config.sections[i].cleartext
          THEN Cardinality({ j \in 1..Len(config.sections[i].domains) :
                               config.sections[i].domains[j] = domain })
          ELSE 0)
       + CleartextEntriesFrom(config, domain, i + 1)

\* C35: after one or several applications with the same URL the allow-list
\* holds the entry of the URL's hostname exactly once; when the file is absent
\* every application leaves it absent and ends without an error, with the
\* line that the file was not found.
C35_EntryOnceAbsentUntouched ==
  \A i \in 1..Len(gen[NetworkApp].applied) :
    LET domain == ParseUrl(gen[NetworkApp].applied[i].websiteUrl).hostname
    IN  IF gen[NetworkApp].template.exists
          THEN /\ EntriesFrom(gen[NetworkApp].config, domain, 1) = 1
               /\ CleartextEntriesFrom(gen[NetworkApp].config, domain, 1) = 1
               /\ gen[NetworkApp].applied[i].console \in { "Added", "already configured" }
          ELSE /\ gen[NetworkApp].config = NoNetworkConfig
               /\ gen[NetworkApp].applied[i].console =
                    "Network security config not found, will be created during sync"

\* C35 witness: the same URL was applied three times to a file that did not
\* hold its entry
C35_Witness ==
  /\ Len(gen[NetworkApp].applied) = 3
  /\ \A i \in 1..3 : gen[NetworkApp].applied[i].websiteUrl = PassingUrl
  /\ gen[NetworkApp].template.exists
  /\ ~ includesDomainEntry(gen[NetworkApp].template, ExampleName)
  /\ includesDomainEntry(gen[NetworkApp].config, ExampleName)

\* C35 witness for the absent file: applied twice, still absent
C35_WitnessAbsent ==
  /\ Len(gen[NetworkApp].applied) >= 2
  /\ ~ gen[NetworkApp].template.exists


\* how often generateKeystore was started in the Workspace of the request
KeystoreGenerations == Cardinality({ i \in 1..Len(started) : started[i] = "keystore" })

\* C37: over the whole run of a request the keystore of its Workspace is
\* generated at most once, by the one call of generatePlayStoreBuilds, and the
\* KeystoreInfo written for it has the store password as its key password,
\* whatever password was drawn.
C37_KeystoreOnceOnePassword ==
  /\ KeystoreGenerations <= 1
  /\ build.invocations <= 1
  /\ KeystoreGenerations = 1 =>
       /\ build.invocations = 1
       /\ "keystore-info.json" \in disk
       /\ \A password \in Passwords :
            LET info == keystoreInfo(password, req.packageName, req.appName)
            IN  /\ info.keystorePassword = password
                /\ info.keyPassword = info.keystorePassword

\* C37 witness: the keystore was generated and verified and the request answered
C37_Witness ==
  /\ KeystoreGenerations = 1
  /\ build.keystorePromise = "resolved"
  /\ pc = "responded"

\* C38 as stated: whenever keystore-info.json is in the Workspace, the keystore
\* it describes is there too; after a failed generation or verification the
\* Workspace holds no keystore-info.json.
C38_SidecarOnlyWithKeystore ==
  /\ "keystore-info.json" \in disk => "android/app/release-key.keystore" \in disk
  /\ build.keystorePromise = "rejected" => "keystore-info.json" \notin disk


\* C39 as stated: once the sync promise has settled, and so the next stage has
\* started, no manual fallback copy is still running in the Workspace or is
\* started later, whatever the order of the timer, 'close' and 'error'.
C39_NoFallbackAfterSyncSettled ==
  sync.promise \in { "resolved", "rejected" } =>
    \A i \in 1..Len(fallbacks) : fallbacks[i] \in { "done", "failed" }


-----------------------------------------------------------------------------
(* GET /api/download/:appId, two requests for one app                        *)
(*                                                                           *)
(* Both requests build generated-apps/<appId>.zip.  The zip is followed as   *)
(* the file the path names and the files the open descriptors refer to: a    *)
(* removed file lives on for the descriptors that were opened on it.  The    *)
(* archive is ZipChunks chunks long; a chunk of a file is "z" once written   *)
(* and "hole" where a write further on left a gap.                           *)

ZipChunks == 2

\* the app whose Workspace is downloaded, and the two requests
DownloadApp == "x"
Downloads == { 1, 2 }

\* no file: what zipPath names before the first request and after fs.remove
NoFile == 0

CompleteZip == [ i \in 1..ZipChunks |-> "z" ]

NoTransfer ==
  [ pc |-> "start", fd |-> NoFile, written |-> 0, readFd |-> NoFile,
    contentLength |-> 0, received |-> << >>, status |-> 0 ]

DownloadInit ==
  /\ ReporterInit
  /\ \E appDir \in BOOLEAN :
       gen = [ a \in { DownloadApp } |->
                 [ appDir |-> appDir,
                   zipPath |-> NoFile,
                   files |-> [ k \in Downloads |-> << >> ],
                   transfers |-> [ k \in Downloads |-> NoTransfer ] ] ]
  /\ uploads = [ path \in {} |-> "none" ]
  /\ apks = [ file \in {} |-> "none" ]
  /\ download = NoDownload
  /\ interference = {}
  /\ req = [ appName |-> PassingAppName, websiteUrl |-> PassingUrl,
             packageName |-> PassingPackageName, logo |-> FALSE, splash |-> FALSE ]
  /\ env = EnvUnread
  /\ template = "unread"
  /\ pc = "idle"
  /\ response = NoResponse
  /\ disk = {}
  /\ sessionLog = << >>
  /\ stage = "none"
  /\ started = << >>
  /\ settled = {}
  /\ buildPromise = "none"
  /\ sync = NoSync
  /\ fallbacks = << >>
  /\ test = NoTest
  /\ build = NoBuild

Zip == gen[DownloadApp]

\* fs.createWriteStream(zipPath): the file the path names is opened and cut to
\* length zero; a new file is created when the path names none
openZip(z, k) ==
  LET file == IF z.zipPath = NoFile THEN k ELSE z.zipPath
  IN  [ z EXCEPT !.zipPath = file,
                 !.files[file] = << >>,
                 !.transfers[k].pc = "archiving",
                 !.transfers[k].fd = file ]

\* a file after a chunk was written at position i: a write past the end
\* leaves a hole
chunkWritten(bytes, i) ==
  [ j \in 1..(IF i > Len(bytes) THEN i ELSE Len(bytes)) |->
      IF j = i THEN "z" ELSE IF j <= Len(bytes) THEN bytes[j] ELSE "hole" ]

\* the archive stream writes its next chunk through the request's descriptor
writeChunk(z, k) ==
  [ z EXCEPT !.files[z.transfers[k].fd] = chunkWritten(@, z.transfers[k].written + 1),
             !.transfers[k].written = @ + 1 ]

\* res.download(zipPath, ...): the file the path names now is opened and its
\* length taken; with no file the callback gets the error and answers nothing
sendZip(z, k) ==
  IF z.zipPath = NoFile
    THEN [ z EXCEPT !.transfers[k].pc = "sent" ]
    ELSE [ z EXCEPT !.transfers[k].pc = "streaming",
                    !.transfers[k].readFd = z.zipPath,
                    !.transfers[k].contentLength = Len(z.files[z.zipPath]),
                    !.transfers[k].status = 200 ]

\* the next chunk of the response; the stream ends when the file has no more
streamChunk(z, k) ==
  LET next == Len(z.transfers[k].received) + 1
  IN  IF next <= z.transfers[k].contentLength /\ next <= Len(z.files[z.transfers[k].readFd])
        THEN [ z EXCEPT !.transfers[k].received = Append(@, z.files[z.transfers[k].readFd][next]) ]
        ELSE [ z EXCEPT !.transfers[k].pc = "sent" ]

\* the callback of res.download: fs.remove(zipPath)
removeZip(z, k) ==
  [ z EXCEPT !.zipPath = NoFile, !.transfers[k].pc = "done" ]

\* the handler up to the open of the zip; 404 when the app directory is missing
OpenZip ==
  \E k \in Downloads :
    /\ Zip.transfers[k].pc = "start"
    /\ gen' = [ gen EXCEPT ![DownloadApp] =
                  IF Zip.appDir THEN openZip(Zip, k)
                  ELSE [ Zip EXCEPT !.transfers[k].pc = "done",
                                    !.transfers[k].status = 404 ] ]
    /\ UNCHANGED << pipelineVars, reporterVars, uploads, apks, download, interference >>

WriteChunk ==
  \E k \in Downloads :
    /\ Zip.transfers[k].pc = "archiving"
    /\ Zip.transfers[k].written < ZipChunks
    /\ gen' = [ gen EXCEPT ![DownloadApp] = writeChunk(Zip, k) ]
    /\ UNCHANGED << pipelineVars, reporterVars, uploads, apks, download, interference >>

\* archive.finalize() has resolved
SendZip ==
  \E k \in Downloads :
    /\ Zip.transfers[k].pc = "archiving"
    /\ Zip.transfers[k].written = ZipChunks
    /\ gen' = [ gen EXCEPT ![DownloadApp] = sendZip(Zip, k) ]
    /\ UNCHANGED << pipelineVars, reporterVars, uploads, apks, download, interference >>

StreamChunk ==
  \E k \in Downloads :
    /\ Zip.transfers[k].pc = "streaming"
    /\ gen' = [ gen EXCEPT ![DownloadApp] = streamChunk(Zip, k) ]
    /\ UNCHANGED << pipelineVars, reporterVars, uploads, apks, download, interference >>

RemoveZip ==
  \E k \in Downloads :
    /\ Zip.transfers[k].pc = "sent"
    /\ gen' = [ gen EXCEPT ![DownloadApp] = removeZip(Zip, k) ]
    /\ UNCHANGED << pipelineVars, reporterVars, uploads, apks, download, interference >>

DownloadNext ==
  \/ OpenZip
  \/ WriteChunk
  \/ SendZip
  \/ StreamChunk
  \/ RemoveZip

SpecDownload == DownloadInit /\ [][DownloadNext]_vars

\* C40 as stated: two requests for the zip of one app do not interfere; each
\* that is through has received the complete zip, and while a request is
\* writing or streaming the zip no cleanup has taken the file from its path
\* or cut it.
C40_DownloadsDoNotInterfere ==
  Zip.appDir =>
    \A k \in Downloads :
      /\ Zip.transfers[k].pc = "done" =>
           /\ Zip.transfers[k].status = 200
           /\ Zip.transfers[k].received = CompleteZip
      /\ Zip.transfers[k].pc \in { "archiving", "streaming" } => Zip.zipPath # NoFile
      /\ Zip.transfers[k].pc = "streaming" =>
           Len(Zip.files[Zip.transfers[k].readFd]) >= Len(Zip.transfers[k].received)

\* one request after the other: both receive the complete zip
DownloadsInTurn ==
  \A k \in Downloads :
    Zip.transfers[k].pc = "done" /\ Zip.transfers[k].received = CompleteZip

====================================================================
